---- MODULE Spec2Model ----
(***************************************************************************)
(* The in-memory stores of the manufacturing tracker (the DataProvider of  *)
(* the data context) as state machines, one per variant of the provider.   *)
(* Spec is the store that persists to local storage and keeps shipments in *)
(* a React state of its own; SpecBasic is the provider that starts from    *)
(* the sample data; SpecSync is the persisting store together with the     *)
(* remote store it pushes to and pulls from; SpecFirst is the provider     *)
(* that writes to the remote store before it sets its own state.  Every    *)
(* handler is one action, translated from the state update it makes.       *)
(***************************************************************************)
EXTENDS Integers, Sequences, FiniteSets, TLC

\* ---------------------------------------------------------------- bounds
\* number of ids uuidv4() hands out in one behaviour (records added)
MaxIds == 1
\* number of handler calls made on the sample-data provider in one behaviour
MaxCalls == 2
\* number of milliseconds Date.now() advances in one behaviour
MaxClock == 1
\* number of syncAllData calls made in one behaviour
MaxPushes == 2
\* number of remote requests that fail in one behaviour
MaxFaults == 2
\* number of syncAllData and loadAllData calls under way at the same time
MaxInFlight == 1
\* number of addProject calls made on the remote-first provider
MaxAdds == 2

\* ------------------------------------------------------ values of fields
\* the empty string "" (falsy id written by deleteClient and by the forms)
NoId == 0
\* JavaScript undefined: the value of an absent or cleared field
Undef == 0 - 1
\* progress values a caller passes for a PurchaseOrder (Undef: field absent)
PoProgressValues == {Undef, 25}
\* progress values a caller passes for a Project
ProjectProgressValues == {70}
\* values of the free-text fields (name, title, notes)
TextValues == {1, 2}


ProjectFields == {"id", "clientId", "progress"}
ClientFields == {"id", "name"}
SupplierFields == {"id", "name"}
PurchaseOrderFields == {"id", "projectId", "supplierId", "progress", "parts"}
ExternalLinkFields == {"id", "projectId", "supplierId", "poId", "title"}
ShipmentFields == {"id", "projectId", "supplierId", "poId", "partId", "notes"}

VARIABLES
  data,        \* useState<DataState>: the five collections and data.shipments
  shipments,   \* useState<Shipment[]>: the shipments the context value exposes
  nextId,      \* the ids uuidv4() has handed out so far
  lastOp,      \* the call that produced this state (history, for the claims)
  basic,       \* the sample-data provider: its five useState values
  rendered,    \* the values its handlers closed over at the last render
  now,         \* Date.now(), in milliseconds since that provider mounted
  calls,       \* the handler calls made on that provider so far
  remote,      \* the tables of the remote store, each a sequence of rows
  pushes,      \* the syncAllData calls made so far, each with its position
  pull,        \* the loadAllData call of the mount effect, with its position
  isSupabaseConnected,  \* useState(false)
  isLoading,            \* useState(false)
  first,       \* the remote-first provider: its data, isLoading and calls
  stored,      \* localStorage: what is stored under 'asepsData'
  form         \* the purchase-order form: its formData and the order it edits

\* the state of the sample-data provider, which the persisting store lacks
basicVars == <<basic, rendered, now, calls>>

\* the state of the two other providers and of the purchase-order form
others == <<basicVars, first, form>>

\* the remote store and the calls of the persisting store that talk to it
remoteVars == <<remote, pushes, pull, isSupabaseConnected, isLoading>>

vars == <<data, shipments, nextId, lastOp, basicVars, remoteVars, first, stored, form>>

\* the state of the persisting store, which the sample-data provider lacks
storeVars == <<data, shipments, nextId, remoteVars, first, stored, form>>

\* the state that the handlers of the five data collections never touch
elsewhere == <<others, remoteVars>>

\* ------------------------------------------------------- array helpers
\* arr.filter(keep) is SelectSeq(arr, keep)
IdsOf(s) == {s[i].id : i \in DOMAIN s}

Has(s, id) == \E i \in DOMAIN s : s[i].id = id

Find(s, id) == s[CHOOSE i \in DOMAIN s : s[i].id = id]

\* { ...payload, id }: the payload's fields and the id; any other field of
\* the record type is absent afterwards (reads as undefined)
Replace(id, payload, Fields) ==
  [f \in Fields |-> IF f = "id" THEN id
                    ELSE IF f \in DOMAIN payload THEN payload[f] ELSE Undef]

\* { ...old, ...patch }: the patch's fields override, the others are kept
Merge(old, patch) ==
  [f \in DOMAIN old \cup DOMAIN patch |->
     IF f \in DOMAIN patch THEN patch[f] ELSE old[f]]

\* prev.xs.map(x => x.id === id ? { ...payload, id } : x)
ReplaceById(s, id, payload, Fields) ==
  [i \in DOMAIN s |-> IF s[i].id = id THEN Replace(id, payload, Fields) ELSE s[i]]

\* prev.map(x => x.id === id ? { ...x, ...patch } : x)
MergeById(s, id, patch) ==
  [i \in DOMAIN s |-> IF s[i].id = id THEN Merge(s[i], patch) ELSE s[i]]

\* prev.xs.map(x => x[field] === id ? { ...x, [field]: value } : x)
ClearRef(s, field, id, value) ==
  [i \in DOMAIN s |-> IF s[i][field] = id THEN [s[i] EXCEPT ![field] = value] ELSE s[i]]

\* ---------------------------------------------------- progress derivation
RECURSIVE SumProgress(_)
\* projectPOs.reduce((sum, po) => sum + (po.progress || 0), 0)
SumProgress(pos) ==
  IF pos = <<>> THEN 0
  ELSE (IF Head(pos).progress = Undef THEN 0 ELSE Head(pos).progress)
       + SumProgress(Tail(pos))

\* Math.round(total / n) for total >= 0, n > 0: halves round up
RoundDiv(total, n) == (2 * total + n) \div (2 * n)

POsOf(pos, projectId) == SelectSeq(pos, LAMBDA po : po.projectId = projectId)

AverageProgress(pos, projectId) ==
  RoundDiv(SumProgress(POsOf(pos, projectId)), Len(POsOf(pos, projectId)))

\* prev.projects.map(p => p.id === projectId ? { ...p, progress: avg } : p)
SetProgress(projects, projectId, avg) ==
  [i \in DOMAIN projects |->
     IF projects[i].id = projectId THEN [projects[i] EXCEPT !.progress = avg]
     ELSE projects[i]]

\* ------------------------------------------------------------ the blob
\* The blob under 'asepsData' that the provider starts from, saved by an
\* earlier session: one client, two projects of that client, one supplier and
\* one PurchaseOrder of the first project (whose progress was then set by
\* hand with updateProject).
Blob ==
  [projects |-> << [id |-> 1, clientId |-> 3, progress |-> 70],
                   [id |-> 2, clientId |-> 3, progress |-> 70] >>,
   clients |-> << [id |-> 3, name |-> 1] >>,
   suppliers |-> << [id |-> 4, name |-> 1] >>,
   purchaseOrders |-> << [id |-> 5, projectId |-> 1, supplierId |-> 4, progress |-> 25,
                          parts |-> << [id |-> 6, progress |-> 50] >>] >>,
   externalLinks |-> <<>>,
   shipments |-> <<>>]

\* the number of ids the blob uses, parts included: 1..BlobIds
BlobIds == Len(Blob.projects) + Len(Blob.clients) + Len(Blob.suppliers)
           + Len(Blob.purchaseOrders) + Len(Blob.purchaseOrders[1].parts)

\* the id the next uuidv4() call returns
NewId == BlobIds + nextId + 1

\* ------------------------------------------------------- the sample data
\* sampleProjects .. sampleExternalLinks, the initial values of the five
\* useState calls of the sample-data provider: ids p1..p3, c1..c3, s1..s3,
\* po1..po3, l1..l3 are 1..15 here
Sample ==
  [projects |-> << [id |-> 1, clientId |-> 4, progress |-> 65],
                   [id |-> 2, clientId |-> 5, progress |-> 40],
                   [id |-> 3, clientId |-> 6, progress |-> 100] >>,
   clients |-> << [id |-> 4, name |-> 1], [id |-> 5, name |-> 1],
                  [id |-> 6, name |-> 1] >>,
   suppliers |-> << [id |-> 7, name |-> 1, comments |-> 1],
                    [id |-> 8, name |-> 1, comments |-> 1],
                    [id |-> 9, name |-> 1, comments |-> 1] >>,
   purchaseOrders |-> << [id |-> 10, projectId |-> 1, supplierId |-> 7],
                         [id |-> 11, projectId |-> 2, supplierId |-> 8],
                         [id |-> 12, projectId |-> 3, supplierId |-> 9] >>,
   externalLinks |-> << [id |-> 13, projectId |-> 1, supplierId |-> Undef,
                         poId |-> 10, title |-> 1],
                        [id |-> 14, projectId |-> 2, supplierId |-> 8,
                         poId |-> Undef, title |-> 1],
                        [id |-> 15, projectId |-> 3, supplierId |-> Undef,
                         poId |-> 12, title |-> 1] >>]

\* the number of ids the sample data uses: 1..SampleIds
SampleIds == Len(Sample.projects) + Len(Sample.clients) + Len(Sample.suppliers)
             + Len(Sample.purchaseOrders) + Len(Sample.externalLinks)

\* the position of each id prefix: `p${..}`, `c${..}`, `s${..}`, `po${..}`, `l${..}`
Prefix == [p |-> 0, c |-> 1, s |-> 2, po |-> 3, l |-> 4]

\* `${prefix}${Date.now()}`: one id per prefix and millisecond, so that two
\* ids are equal exactly when prefix and millisecond are
DateNowId(prefix) == SampleIds + Prefix[prefix] * (MaxClock + 1) + now + 1

\* -------------------------------------------------------------- payloads
\* The forms offer the records that exist: a required reference names one
\* of them, an optional one may be left unset.
RefsTo(s) == IdsOf(s)
OptRefsTo(s, unset) == IdsOf(s) \cup {unset}

\* Omit<Project, "id">: the form offers the clients that exist, and leaves
\* clientId "" when there is none
ProjectPayloads ==
  { [clientId |-> c, progress |-> p] :
      c \in (IF data.clients = <<>> THEN {NoId} ELSE IdsOf(data.clients)),
      p \in ProjectProgressValues }

NamePayloads == { [name |-> n] : n \in TextValues }

\* the part list the form sends for the PurchaseOrder with this id: the blob's
\* part for the blob's order, else a part whose id the form made up, which
\* never coincides with an id of the store
PartsOf(poId) ==
  IF \E i \in DOMAIN Blob.purchaseOrders : Blob.purchaseOrders[i].id = poId
  THEN Find(Blob.purchaseOrders, poId).parts
  ELSE << [id |-> BlobIds + MaxIds + poId, progress |-> 50] >>

\* Omit<PurchaseOrder, "id">; progress is optional
PurchaseOrderPayloads(poId) ==
  { IF g = Undef
      THEN [projectId |-> p, supplierId |-> s, parts |-> PartsOf(poId)]
      ELSE [projectId |-> p, supplierId |-> s, parts |-> PartsOf(poId), progress |-> g] :
      p \in RefsTo(data.projects), s \in RefsTo(data.suppliers),
      g \in PoProgressValues }

\* an object literal that leaves out its unset optional fields
Compact(r) == [f \in {g \in DOMAIN r : r[g] # Undef} |-> r[f]]

\* Omit<ExternalLink, "id">; supplierId and poId are optional
ExternalLinkPayloads ==
  { Compact([projectId |-> p, supplierId |-> s, poId |-> o, title |-> 1]) :
      p \in RefsTo(data.projects), s \in OptRefsTo(data.suppliers, Undef),
      o \in OptRefsTo(data.purchaseOrders, Undef) }

\* Omit<Shipment, "id">: a shipment of a part of an existing PurchaseOrder,
\* for that order's project and supplier
ShipmentPayloads ==
  { [projectId |-> po.projectId, supplierId |-> po.supplierId, poId |-> po.id,
     partId |-> po.parts[1].id, notes |-> 1] :
      po \in {data.purchaseOrders[i] :
                i \in {j \in DOMAIN data.purchaseOrders :
                          data.purchaseOrders[j].parts # <<>>}} }

\* Partial<Omit<Shipment, "id">>: some of the fields
ShipmentPatches ==
  { [notes |-> n] : n \in TextValues }
  \cup
  { [projectId |-> p] : p \in RefsTo(data.projects) }
  \cup
  { [supplierId |-> s, notes |-> 2] : s \in RefsTo(data.suppliers) }

\* the ids a caller passes to update and delete: the id of a record of the
\* collection, or an id that no record of the collection has
Targets(s) ==
  IdsOf(s) \cup {CHOOSE i \in 1..(BlobIds + MaxIds + 1) : i \notin IdsOf(s)}

\* What the caller of a handler observes: every handler returns undefined
\* and none throws.  id is the id the call acted on (the new record's id, or
\* the id of the record it found); a call that found no record keeps no id.
Called(op, id, found) ==
  [op |-> op, found |-> found, result |-> "void",
   id |-> IF found THEN id ELSE NoId]

\* a call that ended with a TypeError
Threw(op) == [op |-> op, found |-> FALSE, result |-> "throws", id |-> NoId]

\* ======================================================== local storage
\* What localStorage holds under 'asepsData': nothing, a text that is not
\* JSON, or the text JSON.stringify made of a value.  The text is named by
\* the value it was made of; what the text leaves out of that value shows
\* when it is parsed.
Absent == [kind |-> "absent"]

Corrupt == [kind |-> "corrupt"]

Json(v) == [kind |-> "json", value |-> v]

\* a record as it comes back from its JSON text: JSON.stringify leaves out
\* every field whose value is undefined, so the parsed record lacks it
ParseRecord(r) ==
  [f \in {g \in DOMAIN r : g = "parts" \/ r[g] # Undef} |->
     IF f = "parts" THEN [i \in DOMAIN r[f] |->
                            [h \in {g \in DOMAIN r[f][i] : r[f][i][g] # Undef} |->
                               r[f][i][h]]]
     ELSE r[f]]

\* JSON.parse(savedData) for the text of a value: its collections, record
\* by record
Parse(s) ==
  [c \in DOMAIN s.value |-> [i \in DOMAIN s.value[c] |-> ParseRecord(s.value[c][i])]]

\* createDummyData() of '@/data/dummy-data': the synthetic sample dataset,
\* here one client with one project
createDummyData ==
  [projects |-> << [id |-> 1, clientId |-> 2, progress |-> 0] >>,
   clients |-> << [id |-> 2, name |-> 1] >>,
   suppliers |-> <<>>, purchaseOrders |-> <<>>, externalLinks |-> <<>>,
   shipments |-> <<>>]

\* what a render gets when JSON.parse throws its SyntaxError
Thrown == [kind |-> "thrown"]

\* an array that an expression has yielded
Array(a) == [kind |-> "array", value |-> a]

\* prev.shipments alone: .filter and .map throw a TypeError on the undefined
\* of a missing key
ShipmentsOrEmpty_unguarded(prev) ==
  IF "shipments" \in DOMAIN prev THEN Array(prev.shipments) ELSE Thrown

\* (prev.shipments || [])
ShipmentsOrEmpty(prev) ==
  Array(IF "shipments" \in DOMAIN prev THEN prev.shipments ELSE <<>>)

\* { ...prev, shipments: s }
WithShipments(prev, s) ==
  IF "shipments" \in DOMAIN prev THEN [prev EXCEPT !.shipments = s]
  ELSE [c \in DOMAIN prev \cup {"shipments"} |->
          IF c = "shipments" THEN s ELSE prev[c]]

\* the initializer of the data state:
\* savedData ? JSON.parse(savedData) : createDummyData()
Initializer(s) ==
  CASE s.kind = "absent" -> createDummyData
    [] s.kind = "json" -> Parse(s)
    [] s.kind = "corrupt" -> Thrown

\* the effect on [data]: localStorage.setItem('asepsData', JSON.stringify(data)),
\* run after every render that follows a setData
Persist == stored' = Json(data')

\* ====================================================== the remote store
\* The tables of the remote store in the order syncAllData writes them, and
\* in the order clearTables empties them.
\* the order of the tables, second before first
UpsertOrder_projectsFirst ==
  << "projects", "clients", "suppliers", "purchase_orders", "parts",
     "external_links", "shipments" >>

UpsertOrder ==
  << "clients", "projects", "suppliers", "purchase_orders", "parts",
     "external_links", "shipments" >>

ClearOrder ==
  << "shipments", "external_links", "parts", "purchase_orders", "projects",
     "suppliers", "clients" >>

TableNames == {UpsertOrder[k] : k \in DOMAIN UpsertOrder}

\* the message of the result syncAllData returns when the upsert of a table
\* fails
FailureMessage ==
  [clients |-> "Failed to sync clients",
   projects |-> "Failed to sync projects",
   suppliers |-> "Failed to sync suppliers",
   purchase_orders |-> "Failed to sync purchase orders",
   parts |-> "Failed to sync parts",
   external_links |-> "Failed to sync external links",
   shipments |-> "Failed to sync shipments"]

SuccessMessage == "All data synchronized successfully"

\* an id that no local record ever has
StaleId == 2 * (BlobIds + MaxIds) + 1

\* what the remote store holds when the provider mounts: rows of an earlier
\* session, a client and a shipment that the local blob no longer has
RemoteSeed ==
  [t \in TableNames |->
     IF t = "clients" THEN << [id |-> StaleId, name |-> 1] >>
     ELSE IF t = "shipments"
          THEN << [id |-> StaleId + 1, project_id |-> 1, supplier_id |-> 4,
                   po_id |-> 5, part_id |-> 6] >>
          ELSE <<>>]

\* row.field, undefined when the row has no such field
Get(row, field) == IF field \in DOMAIN row THEN row[field] ELSE Undef

\* x || y for a number or undefined x
OrElse(x, y) == IF x = Undef \/ x = 0 THEN y ELSE x

\* an insert: the rows are added whatever the table holds
Upsert_inserts(table, rows) == table \o rows

RECURSIVE Upsert(_, _)
\* .upsert(rows, { onConflict: 'id', ignoreDuplicates: false }): a row whose id
\* the table holds replaces that row, any other row is added
Upsert(table, rows) ==
  IF rows = <<>> THEN table
  ELSE LET row == Head(rows)
           next == IF Has(table, row.id)
                   THEN [i \in DOMAIN table |->
                           IF table[i].id = row.id THEN row ELSE table[i]]
                   ELSE Append(table, row)
       IN Upsert(next, Tail(rows))

\* purchaseOrders.map(({ parts, ...po }) => po)
WithoutParts(po) == [f \in DOMAIN po \ {"parts"} |-> po[f]]

\* part => ({ ...part, po_id: po.id }), then syncParts' progress: part.progress || 0
PartRow(part, po) ==
  [f \in DOMAIN part \cup {"po_id", "progress"} |->
     IF f = "po_id" THEN po.id
     ELSE IF f = "progress" THEN OrElse(Get(part, "progress"), 0)
     ELSE part[f]]

RECURSIVE AllParts(_)
\* purchaseOrders.flatMap(po => po.parts ? po.parts.map(...) : [])
AllParts(purchaseOrders) ==
  IF purchaseOrders = <<>> THEN <<>>
  ELSE LET po == Head(purchaseOrders)
       IN (IF "parts" \in DOMAIN po
           THEN [i \in DOMAIN po.parts |-> PartRow(po.parts[i], po)]
           ELSE <<>>)
          \o AllParts(Tail(purchaseOrders))

\* the rows syncAllData sends to a table, from the arguments of the call
RowsFor(args, table) ==
  CASE table = "clients" -> args.clients
    [] table = "projects" -> args.projects
    [] table = "suppliers" -> args.suppliers
    [] table = "purchase_orders" ->
         [i \in DOMAIN args.purchaseOrders |-> WithoutParts(args.purchaseOrders[i])]
    [] table = "parts" -> AllParts(args.purchaseOrders)
    [] table = "external_links" -> args.externalLinks
    [] table = "shipments" -> args.shipments

\* a syncAllData call that has just been made: it is about to clear the
\* first table.  log lists the remote requests it has issued, each with its
\* outcome; result is what it returns; settled is how its promise ended;
\* caller is how the promise of the handler named by `by` ended, which
\* awaited it; since names the calls that were under way when it was made,
\* and snapshot is the read model it was made on.
NewPush(by, args) ==
  [by |-> by, args |-> args, phase |-> "clear", k |-> 1, log |-> <<>>,
   result |-> [success |-> FALSE, message |-> "pending"], settled |-> "pending",
   caller |-> "pending",
   since |-> {i \in DOMAIN pushes : pushes[i].phase # "done"},
   snapshot |-> WithShipments(data, shipments)]

\* the calls still under way
InFlight == {i \in DOMAIN pushes : pushes[i].phase # "done"}

\* the number of syncAllData and loadAllData calls under way
Busy == Cardinality(InFlight) + (IF pull.phase = "select" THEN 1 ELSE 0)

\* a further syncAllData call may be made
MayCall == Len(pushes) < MaxPushes

\* no further call is made while MaxInFlight calls are under way
OneAtATime == Busy < MaxInFlight

\* no loadAllData call has been made; before is the local state the call
\* was made in, by is its caller (the effect on [isSupabaseConnected], or
\* loadFromSupabase)
NoPull ==
  [phase |-> "idle", k |-> 0, got |-> [t \in TableNames |-> <<>>],
   failed |-> <<>>, result |-> [success |-> FALSE], settled |-> "pending",
   before |-> <<>>, by |-> "effect"]

\* the remote-first provider when it has mounted on a localStorage that
\* holds blob: no data, isLoading true, no handler called, and the effect
\* has called loadInitialData, which has called loadFromSupabase, which
\* waits for the first request of loadAllData
MountedOn(blob) ==
  [data |-> [projects |-> <<>>, clients |-> <<>>, suppliers |-> <<>>,
             purchaseOrders |-> <<>>, externalLinks |-> <<>>],
   isLoading |-> TRUE,
   adds |-> <<>>,
   orders |-> <<>>,
   stored |-> blob,
   load |-> [phase |-> "select", k |-> 1, got |-> [t \in TableNames |-> <<>>],
             outcome |-> "pending", path |-> "pending"]]

Mounted == MountedOn(Absent)

\* ------------------------------------------------ the purchase-order form
\* the parts one opening of the form adds with addPart
MaxParts == 1
\* the times the dialog is opened in one behaviour
MaxOpens == 1

\* the empty string of a text input, and a text the user typed
EmptyText == 0
SomeText == 1
\* the progress values typed into a part's progress input
PartProgressValues == {0, 25, 50}
\* the values the progress slider is moved to
SliderValues == {0, 40}

\* `part-${Date.now()}`: the id of the k-th part the form made, outside the
\* ids uuidv4() hands out
FormPartId(k) == 2 * (BlobIds + MaxIds + 1) + k

\* purchaseOrder?: undefined when the form creates an order
NoPurchaseOrder == [id |-> NoId]

\* the blank part that useState, the reset and addPart write
BlankPart(k) == [id |-> FormPartId(k), name |-> EmptyText, progress |-> 0]

RECURSIVE SumPartProgress(_)
\* formData.parts.reduce((sum, part) => sum + (part.progress || 0), 0)
SumPartProgress(parts) ==
  IF parts = <<>> THEN 0
  ELSE OrElse(Get(Head(parts), "progress"), 0) + SumPartProgress(Tail(parts))

\* calculateProgressFromParts with Math.floor in place of Math.round
calculateProgressFromParts_floor(parts) ==
  IF Len(parts) = 0 THEN 0 ELSE SumPartProgress(parts) \div Len(parts)

calculateProgressFromParts(parts) ==
  IF Len(parts) = 0 THEN 0 ELSE RoundDiv(SumPartProgress(parts), Len(parts))

\* useEffect(..., [formData.parts]): run by the render that follows a new
\* parts array; it overwrites a progress of 0 (or none) only
PartsEffect(formData) ==
  IF formData.progress = 0 \/ formData.progress = Undef
  THEN [formData EXCEPT !.progress = calculateProgressFromParts(formData.parts)]
  ELSE formData

\* what useEffect(..., [purchaseOrder, open]) sets: the order's fields, or
\* the blank form with its k-th part.  The store model keeps no poNumber,
\* deadline or part name: an order of the store has them set.
FormDataOf(purchaseOrder, k) ==
  IF purchaseOrder # NoPurchaseOrder
  THEN [poNumber |-> SomeText,
        projectId |-> purchaseOrder.projectId,
        supplierId |-> purchaseOrder.supplierId,
        deadline |-> SomeText,
        progress |-> OrElse(Get(purchaseOrder, "progress"), 0),
        parts |-> [i \in DOMAIN purchaseOrder.parts |->
                     [id |-> purchaseOrder.parts[i].id, name |-> SomeText,
                      progress |-> OrElse(Get(purchaseOrder.parts[i], "progress"), 0)]]]
  ELSE [poNumber |-> EmptyText, projectId |-> NoId, supplierId |-> NoId,
        deadline |-> EmptyText, progress |-> 0, parts |-> << BlankPart(k) >>]

\* the form as mounted: the dialog closed, no order given, the useState value
MountedForm ==
  [open |-> FALSE, purchaseOrder |-> NoPurchaseOrder, opens |-> 0, made |-> 0,
   formData |-> FormDataOf(NoPurchaseOrder, 0)]

\* ------------------------------------------------------------------ Init
\* useState(() => JSON.parse(savedData)); isSupabaseConnected is false, so no
\* handler of Spec starts a remote push
StoreInit ==
  /\ data = Blob
  /\ shipments = <<>>
  /\ nextId = 0
  /\ lastOp = Called("init", NoId, FALSE)
  /\ basic = Sample
  /\ rendered = Sample
  /\ now = 0
  /\ calls = 0
  /\ remote = RemoteSeed
  /\ pushes = <<>>
  /\ pull = NoPull
  /\ isSupabaseConnected = FALSE
  /\ isLoading = FALSE
  /\ stored = Json(Blob)
  /\ form = MountedForm

Init ==
  /\ StoreInit
  /\ first = Mounted

\* ------------------------------------------------------------- projects
addProject(project) ==
  /\ nextId < MaxIds
  /\ nextId' = nextId + 1
  /\ data' = [data EXCEPT !.projects =
                Append(@, Replace(NewId, project, ProjectFields))]
  /\ lastOp' = Called("addProject", NewId, TRUE)
  /\ Persist
  /\ UNCHANGED <<shipments, elsewhere>>

updateProject(id, project) ==
  /\ data' = [data EXCEPT !.projects = ReplaceById(@, id, project, ProjectFields)]
  /\ lastOp' = Called("updateProject", id, Has(data.projects, id))
  /\ Persist
  /\ UNCHANGED <<shipments, nextId, elsewhere>>

deleteProject(id) ==
  /\ LET old == ShipmentsOrEmpty(data)
     IN IF old = Thrown
        THEN data' = data /\ lastOp' = Threw("deleteProject")
        ELSE /\ data' = WithShipments(
                  [data EXCEPT
                     !.projects = SelectSeq(@, LAMBDA p : p.id # id),
                     !.purchaseOrders = SelectSeq(@, LAMBDA po : po.projectId # id),
                     !.externalLinks = SelectSeq(@, LAMBDA el : el.projectId # id)],
                  SelectSeq(old.value, LAMBDA s : s.projectId # id))
             /\ lastOp' = Called("deleteProject", id, Has(data.projects, id))
  /\ Persist
  /\ UNCHANGED <<shipments, nextId, elsewhere>>

\* -------------------------------------------------------------- clients
addClient(client) ==
  /\ nextId < MaxIds
  /\ nextId' = nextId + 1
  /\ data' = [data EXCEPT !.clients =
                Append(@, Replace(NewId, client, ClientFields))]
  /\ lastOp' = Called("addClient", NewId, TRUE)
  /\ Persist
  /\ UNCHANGED <<shipments, elsewhere>>

updateClient(id, client) ==
  /\ data' = [data EXCEPT !.clients = ReplaceById(@, id, client, ClientFields)]
  /\ lastOp' = Called("updateClient", id, Has(data.clients, id))
  /\ Persist
  /\ UNCHANGED <<shipments, nextId, elsewhere>>

deleteClient(id) ==
  /\ data' = [data EXCEPT
       !.clients = SelectSeq(@, LAMBDA c : c.id # id),
       !.projects = ClearRef(@, "clientId", id, NoId)]
  /\ lastOp' = Called("deleteClient", id, Has(data.clients, id))
  /\ Persist
  /\ UNCHANGED <<shipments, nextId, elsewhere>>

\* ------------------------------------------------------------ suppliers
addSupplier(supplier) ==
  /\ nextId < MaxIds
  /\ nextId' = nextId + 1
  /\ data' = [data EXCEPT !.suppliers =
                Append(@, Replace(NewId, supplier, SupplierFields))]
  /\ lastOp' = Called("addSupplier", NewId, TRUE)
  /\ Persist
  /\ UNCHANGED <<shipments, elsewhere>>

updateSupplier(id, supplier) ==
  /\ data' = [data EXCEPT !.suppliers = ReplaceById(@, id, supplier, SupplierFields)]
  /\ lastOp' = Called("updateSupplier", id, Has(data.suppliers, id))
  /\ Persist
  /\ UNCHANGED <<shipments, nextId, elsewhere>>

deleteSupplier(id) ==
  /\ LET old == ShipmentsOrEmpty(data)
     IN IF old = Thrown
        THEN data' = data /\ lastOp' = Threw("deleteSupplier")
        ELSE /\ data' = WithShipments(
                  [data EXCEPT
                     !.suppliers = SelectSeq(@, LAMBDA s : s.id # id),
                     !.purchaseOrders = SelectSeq(@, LAMBDA po : po.supplierId # id),
                     !.externalLinks = ClearRef(@, "supplierId", id, Undef)],
                  SelectSeq(old.value, LAMBDA s : s.supplierId # id))
             /\ lastOp' = Called("deleteSupplier", id, Has(data.suppliers, id))
  /\ Persist
  /\ UNCHANGED <<shipments, nextId, elsewhere>>

\* ------------------------------------------------------ purchase orders
\* the helper callback of the provider; no handler calls it
updateProjectProgress(prev, projectId) ==
  IF Len(POsOf(prev.purchaseOrders, projectId)) = 0 THEN prev
  ELSE [prev EXCEPT !.projects =
          SetProgress(@, projectId, AverageProgress(prev.purchaseOrders, projectId))]

addPurchaseOrder(purchaseOrder) ==
  LET newPO == Replace(NewId, purchaseOrder, PurchaseOrderFields)
      allPOs == Append(data.purchaseOrders, newPO)
      projectId == purchaseOrder.projectId
  IN /\ nextId < MaxIds
     /\ nextId' = nextId + 1
     /\ data' = [data EXCEPT
          !.purchaseOrders = allPOs,
          !.projects = SetProgress(@, projectId, AverageProgress(allPOs, projectId))]
     /\ lastOp' = Called("addPurchaseOrder", NewId, TRUE)
     /\ Persist
     /\ UNCHANGED <<shipments, basicVars, first, remoteVars>>

updatePurchaseOrder(id, purchaseOrder) ==
  LET updatedPOs == ReplaceById(data.purchaseOrders, id, purchaseOrder,
                                PurchaseOrderFields)
      projectId == purchaseOrder.projectId
  IN /\ data' = [data EXCEPT
          !.purchaseOrders = updatedPOs,
          !.projects =
             IF Len(POsOf(updatedPOs, projectId)) > 0
             THEN SetProgress(@, projectId, AverageProgress(updatedPOs, projectId))
             ELSE @]
     /\ lastOp' = Called("updatePurchaseOrder", id, Has(data.purchaseOrders, id))
     /\ Persist
     /\ UNCHANGED <<shipments, nextId, basicVars, first, remoteVars>>

\* deletePurchaseOrder without the projectPOs.length > 0 guard: a Project left
\* without PurchaseOrders gets a progress of 0
deletePurchaseOrder_resetsProgress(id) ==
  LET found == Has(data.purchaseOrders, id)
      projectId == IF found THEN Find(data.purchaseOrders, id).projectId ELSE Undef
      filteredPOs == SelectSeq(data.purchaseOrders, LAMBDA po : po.id # id)
  IN /\ data' = [data EXCEPT
          !.purchaseOrders = filteredPOs,
          !.externalLinks = ClearRef(@, "poId", id, Undef),
          !.shipments = SelectSeq(@, LAMBDA s : s.poId # id),
          !.projects =
             IF projectId # Undef /\ projectId # NoId
             THEN SetProgress(@, projectId,
                    IF Len(POsOf(filteredPOs, projectId)) > 0
                    THEN AverageProgress(filteredPOs, projectId) ELSE 0)
             ELSE @]
     /\ lastOp' = Called("deletePurchaseOrder", id, found)
     /\ Persist
     /\ UNCHANGED <<shipments, nextId, elsewhere>>

deletePurchaseOrder(id) ==
  LET found == Has(data.purchaseOrders, id)
      \* poToDelete?.projectId
      projectId == IF found THEN Find(data.purchaseOrders, id).projectId ELSE Undef
      filteredPOs == SelectSeq(data.purchaseOrders, LAMBDA po : po.id # id)
      old == ShipmentsOrEmpty(data)
  IN /\ IF old = Thrown
        THEN data' = data /\ lastOp' = Threw("deletePurchaseOrder")
        ELSE /\ data' = WithShipments(
                  [data EXCEPT
                     !.purchaseOrders = filteredPOs,
                     !.externalLinks = ClearRef(@, "poId", id, Undef),
                     !.projects =
                        \* if (projectId): undefined and "" are falsy
                        IF projectId # Undef /\ projectId # NoId
                           /\ Len(POsOf(filteredPOs, projectId)) > 0
                        THEN SetProgress(@, projectId,
                                         AverageProgress(filteredPOs, projectId))
                        ELSE @],
                  SelectSeq(old.value, LAMBDA s : s.poId # id))
             /\ lastOp' = Called("deletePurchaseOrder", id, found)
     /\ Persist
     /\ UNCHANGED <<shipments, nextId, elsewhere>>

\* ------------------------------------------------------- external links
addExternalLink(externalLink) ==
  /\ nextId < MaxIds
  /\ nextId' = nextId + 1
  /\ data' = [data EXCEPT !.externalLinks =
                Append(@, Replace(NewId, externalLink, ExternalLinkFields))]
  /\ lastOp' = Called("addExternalLink", NewId, TRUE)
  /\ Persist
  /\ UNCHANGED <<shipments, elsewhere>>

updateExternalLink(id, externalLink) ==
  /\ data' = [data EXCEPT !.externalLinks =
                ReplaceById(@, id, externalLink, ExternalLinkFields)]
  /\ lastOp' = Called("updateExternalLink", id, Has(data.externalLinks, id))
  /\ Persist
  /\ UNCHANGED <<shipments, nextId, elsewhere>>

deleteExternalLink(id) ==
  /\ data' = [data EXCEPT !.externalLinks = SelectSeq(@, LAMBDA el : el.id # id)]
  /\ lastOp' = Called("deleteExternalLink", id, Has(data.externalLinks, id))
  /\ Persist
  /\ UNCHANGED <<shipments, nextId, elsewhere>>

\* ------------------------------------------------------------ shipments
\* Each handler sets the state and then, if isSupabaseConnected, calls
\* syncAllData with the local records as they are and the shipments it
\* computed from the value of the last render; it does not await the call.
\* isSupabaseConnected stays false in Spec, where the handlers only set the
\* state.
RawArgs(shipmentsToSend) ==
  [clients |-> data.clients, projects |-> data.projects,
   suppliers |-> data.suppliers, purchaseOrders |-> data.purchaseOrders,
   externalLinks |-> data.externalLinks, shipments |-> shipmentsToSend]

\* if (isSupabaseConnected) { syncAllData(...).then(...) }
SyncShipments(by, shipmentsToSend) ==
  /\ isSupabaseConnected => MayCall
  /\ pushes' = IF isSupabaseConnected
               THEN Append(pushes, NewPush(by, RawArgs(shipmentsToSend)))
               ELSE pushes
  /\ UNCHANGED <<remote, pull, isSupabaseConnected, isLoading>>

addShipment(shipmentData) ==
  /\ nextId < MaxIds
  /\ nextId' = nextId + 1
  /\ shipments' = Append(shipments, Replace(NewId, shipmentData, ShipmentFields))
  /\ SyncShipments("addShipment",
                   Append(shipments, Replace(NewId, shipmentData, ShipmentFields)))
  /\ lastOp' = Called("addShipment", NewId, TRUE)
  /\ UNCHANGED <<data, stored, others>>

updateShipment(id, shipmentData) ==
  /\ shipments' = MergeById(shipments, id, shipmentData)
  /\ SyncShipments("updateShipment", MergeById(shipments, id, shipmentData))
  /\ lastOp' = Called("updateShipment", id, Has(shipments, id))
  /\ UNCHANGED <<data, stored, nextId, others>>

deleteShipment(id) ==
  /\ shipments' = SelectSeq(shipments, LAMBDA s : s.id # id)
  /\ SyncShipments("deleteShipment", SelectSeq(shipments, LAMBDA s : s.id # id))
  /\ lastOp' = Called("deleteShipment", id, Has(shipments, id))
  /\ UNCHANGED <<data, stored, nextId, others>>

\* ---------------------------------------------------------- clearAllData
\* setData(emptyData) and localStorage.removeItem('asepsData'); the render
\* that follows runs the effect on [data], which stores the empty data
\* again.  setShipments is not called.  isLoading is set and, in the
\* finally of the same call, cleared.
EmptyData ==
  [projects |-> <<>>, clients |-> <<>>, suppliers |-> <<>>,
   purchaseOrders |-> <<>>, externalLinks |-> <<>>, shipments |-> <<>>]

clearAllData ==
  /\ data' = EmptyData
  /\ Persist
  /\ isLoading' = FALSE
  /\ lastOp' = Called("clearAllData", NoId, FALSE)
  /\ UNCHANGED <<shipments, nextId, others, remote, pushes, pull, isSupabaseConnected>>

\* ------------------------------------------------------------------ Next
ProjectHandlers ==
  \/ \E project \in ProjectPayloads : addProject(project)
  \/ \E id \in Targets(data.projects), project \in ProjectPayloads :
       updateProject(id, project)
  \/ \E id \in Targets(data.projects) : deleteProject(id)

ClientHandlers ==
  \/ \E client \in NamePayloads : addClient(client)
  \/ \E id \in Targets(data.clients), client \in NamePayloads :
       updateClient(id, client)
  \/ \E id \in Targets(data.clients) : deleteClient(id)

SupplierHandlers ==
  \/ \E supplier \in NamePayloads : addSupplier(supplier)
  \/ \E id \in Targets(data.suppliers), supplier \in NamePayloads :
       updateSupplier(id, supplier)
  \/ \E id \in Targets(data.suppliers) : deleteSupplier(id)

PurchaseOrderHandlers ==
  \/ \E po \in PurchaseOrderPayloads(NewId) :
       addPurchaseOrder(po) /\ UNCHANGED form
  \/ \E id \in Targets(data.purchaseOrders) :
       \E po \in PurchaseOrderPayloads(id) :
         updatePurchaseOrder(id, po) /\ UNCHANGED form
  \/ \E id \in Targets(data.purchaseOrders) : deletePurchaseOrder(id)

ExternalLinkHandlers ==
  \/ \E el \in ExternalLinkPayloads : addExternalLink(el)
  \/ \E id \in Targets(data.externalLinks), el \in ExternalLinkPayloads :
       updateExternalLink(id, el)
  \/ \E id \in Targets(data.externalLinks) : deleteExternalLink(id)

ShipmentHandlers ==
  \/ \E s \in ShipmentPayloads : addShipment(s)
  \/ \E id \in Targets(shipments), s \in ShipmentPatches : updateShipment(id, s)
  \/ \E id \in Targets(shipments) : deleteShipment(id)

\* the store: every handler of the context value, called in any order
Next ==
  \/ ProjectHandlers
  \/ ClientHandlers
  \/ SupplierHandlers
  \/ PurchaseOrderHandlers
  \/ ExternalLinkHandlers
  \/ ShipmentHandlers

Spec == Init /\ [][Next]_vars

\* the store when only projects and purchase orders are edited
NextProgress ==
  \/ ProjectHandlers
  \/ PurchaseOrderHandlers

SpecProgress == Init /\ [][NextProgress]_vars

\* the payloads of the form that edits the PurchaseOrder with this id: as
\* PurchaseOrderPayloads, with the part list as it was or with its part
\* removed and a new part, under an id the form made up, added
PurchaseOrderEdits(poId) ==
  PurchaseOrderPayloads(poId)
  \cup
  { [po EXCEPT !.parts = << [id |-> BlobIds + MaxIds + poId, progress |-> 50] >>] :
      po \in PurchaseOrderPayloads(poId) }

\* the store when shipments are added and edited and purchase orders are
\* edited
NextParts ==
  \/ \E shipment \in ShipmentPayloads : addShipment(shipment)
  \/ \E id \in Targets(shipments), shipment \in ShipmentPatches :
       updateShipment(id, shipment)
  \/ \E id \in IdsOf(data.purchaseOrders) :
       \E po \in PurchaseOrderEdits(id) :
         updatePurchaseOrder(id, po) /\ UNCHANGED form

SpecParts == Init /\ [][NextParts]_vars

\* the store when clients and shipments are edited and the data is reset
NextClear ==
  \/ ClientHandlers
  \/ ShipmentHandlers
  \/ clearAllData

SpecClear == Init /\ [][NextClear]_vars

\* ====================================================== synchronisation
\* The store pushes its data to the remote store (syncWithSupabase, and the
\* shipment handlers once connected) and reads it back in the effect that
\* runs when isSupabaseConnected changes.  Every remote request is one step:
\* the request takes effect and its answer arrives.  A request succeeds,
\* answers with an error, or throws.

\* the rows syncWithSupabase builds from the local records
ProjectToSync(p) ==
  [id |-> p.id, client_id |-> Get(p, "clientId"), progress |-> Get(p, "progress")]

ClientToSync(c) == [id |-> c.id, name |-> Get(c, "name")]

SupplierToSync(s) == [id |-> s.id, name |-> Get(s, "name")]

PurchaseOrderToSync(po) ==
  [id |-> po.id, project_id |-> Get(po, "projectId"),
   supplier_id |-> Get(po, "supplierId"),
   progress |-> OrElse(Get(po, "progress"), 0)]

ExternalLinkToSync(el) ==
  [id |-> el.id, project_id |-> Get(el, "projectId"),
   supplier_id |-> Get(el, "supplierId"), po_id |-> Get(el, "poId"),
   title |-> Get(el, "title")]

ShipmentToSync(s) ==
  [id |-> s.id, project_id |-> Get(s, "projectId"),
   supplier_id |-> Get(s, "supplierId"), po_id |-> Get(s, "poId"),
   part_id |-> Get(s, "partId")]

\* the arguments of syncWithSupabase's call of syncAllData
ArgsToSync ==
  [projects |-> [i \in DOMAIN data.projects |-> ProjectToSync(data.projects[i])],
   clients |-> [i \in DOMAIN data.clients |-> ClientToSync(data.clients[i])],
   suppliers |-> [i \in DOMAIN data.suppliers |-> SupplierToSync(data.suppliers[i])],
   purchaseOrders |->
     [i \in DOMAIN data.purchaseOrders |-> PurchaseOrderToSync(data.purchaseOrders[i])],
   externalLinks |->
     [i \in DOMAIN data.externalLinks |-> ExternalLinkToSync(data.externalLinks[i])],
   shipments |-> [i \in DOMAIN ShipmentsOrEmpty(data).value |->
                    ShipmentToSync(ShipmentsOrEmpty(data).value[i])]]

\* the requests that have failed so far
FailedRequests ==
  {r \in (1..MaxPushes) \X (1..(Len(ClearOrder) + Len(UpsertOrder))) :
     /\ r[1] \in DOMAIN pushes
     /\ r[2] \in DOMAIN pushes[r[1]].log
     /\ pushes[r[1]].log[r[2]].outcome # "ok"}

Faults == Cardinality(FailedRequests) + Len(pull.failed)

\* the outcomes of a request: it succeeds, it answers with an error, or it
\* throws.  Each syncX function catches what its upsert throws and returns
\* the failed result it returns for an error, so one outcome stands for both.
Outcomes == {"ok", "error", "throw"}

UpsertOutcomes == {"ok", "error"}

MayAnswer(outcome) == outcome = "ok" \/ Faults < MaxFaults

Logged(p, op, table, outcome) ==
  [p EXCEPT !.log = Append(@, [op |-> op, table |-> table, outcome |-> outcome])]

\* syncWithSupabase, up to its await: setIsLoading(true), build the rows,
\* call syncAllData
syncWithSupabase ==
  /\ MayCall
  /\ IF ShipmentsOrEmpty(data) = Thrown
     THEN \* the catch reports the TypeError and the finally clears isLoading
          /\ isLoading' = FALSE
          /\ pushes' = pushes
          /\ lastOp' = Threw("syncWithSupabase")
     ELSE /\ isLoading' = TRUE
          /\ pushes' = Append(pushes, NewPush("syncWithSupabase", ArgsToSync))
          /\ lastOp' = Called("syncWithSupabase", NoId, TRUE)
  /\ UNCHANGED <<data, stored, shipments, nextId, others, remote, pull, isSupabaseConnected>>

\* clearTables: one delete().gt('id', '').  The answer is not looked at; a
\* request that throws ends clearTables, whose catch swallows it.
ClearTable(i, outcome) ==
  /\ i \in DOMAIN pushes
  /\ pushes[i].phase = "clear"
  /\ MayAnswer(outcome)
  /\ LET p == pushes[i]
         table == ClearOrder[p.k]
         q == Logged(p, "delete", table, outcome)
     IN /\ remote' = IF outcome = "ok" THEN [remote EXCEPT ![table] = <<>>] ELSE remote
        /\ pushes' = [pushes EXCEPT ![i] =
                        IF outcome = "throw" \/ p.k = Len(ClearOrder)
                        THEN [q EXCEPT !.phase = "upsert", !.k = 1]
                        ELSE [q EXCEPT !.k = p.k + 1]]
  /\ UNCHANGED <<data, stored, shipments, nextId, lastOp, others, pull,
                 isSupabaseConnected, isLoading>>

\* a syncAllData whose promise rejects when an upsert has failed
Returns_rejects(i, q, success, message) ==
  /\ pushes' = [pushes EXCEPT ![i] =
                  [q EXCEPT !.phase = "done",
                            !.settled = IF success THEN "resolved" ELSE "rejected",
                            !.caller = IF success THEN "resolved" ELSE "rejected"]]
  /\ IF q.by = "syncWithSupabase"
     THEN isSupabaseConnected' = success /\ isLoading' = FALSE
     ELSE UNCHANGED <<isSupabaseConnected, isLoading>>

\* syncAllData returns, and the code that awaited it runs: syncWithSupabase
\* does not look at the result, sets isSupabaseConnected, clears isLoading
\* and resolves; the shipment handlers, which have returned already, log a
\* failure.
Returns(i, q, success, message) ==
  /\ pushes' = [pushes EXCEPT ![i] =
                  [q EXCEPT !.phase = "done",
                            !.result = [success |-> success, message |-> message],
                            !.settled = "resolved",
                            !.caller = "resolved"]]
  /\ IF q.by = "syncWithSupabase"
     THEN isSupabaseConnected' = TRUE /\ isLoading' = FALSE
     ELSE UNCHANGED <<isSupabaseConnected, isLoading>>

\* after the step for table k: the next table, or the successful return
Proceeds(i, q) ==
  IF q.k = Len(UpsertOrder)
  THEN Returns(i, q, TRUE, SuccessMessage)
  ELSE /\ pushes' = [pushes EXCEPT ![i] = [q EXCEPT !.k = q.k + 1]]
       /\ UNCHANGED <<isSupabaseConnected, isLoading>>

\* syncParts and syncShipments send nothing when there are no rows
SendsNothing(p) ==
  /\ UpsertOrder[p.k] \in {"parts", "shipments"}
  /\ RowsFor(p.args, UpsertOrder[p.k]) = <<>>

\* a syncAllData that goes on to the next table after a failed upsert
SyncTable_goesOn(i, outcome) ==
  /\ i \in DOMAIN pushes
  /\ pushes[i].phase = "upsert"
  /\ ~SendsNothing(pushes[i])
  /\ MayAnswer(outcome)
  /\ LET p == pushes[i]
         table == UpsertOrder[p.k]
         q == Logged(p, "upsert", table, outcome)
     IN /\ remote' = IF outcome = "ok"
                     THEN [remote EXCEPT ![table] = Upsert(@, RowsFor(p.args, table))]
                     ELSE remote
        /\ Proceeds(i, q)
  /\ UNCHANGED <<data, stored, shipments, nextId, lastOp, others, pull>>

\* one syncX call of syncAllData: the upsert, and the return of syncAllData
\* if it failed
SyncTable(i, outcome) ==
  /\ i \in DOMAIN pushes
  /\ pushes[i].phase = "upsert"
  /\ ~SendsNothing(pushes[i])
  /\ MayAnswer(outcome)
  /\ LET p == pushes[i]
         table == UpsertOrder[p.k]
         q == Logged(p, "upsert", table, outcome)
     IN /\ remote' = IF outcome = "ok"
                     THEN [remote EXCEPT ![table] = Upsert(@, RowsFor(p.args, table))]
                     ELSE remote
        /\ IF outcome = "ok"
           THEN Proceeds(i, q)
           ELSE Returns(i, q, FALSE, FailureMessage[table])
  /\ UNCHANGED <<data, stored, shipments, nextId, lastOp, others, pull>>

SkipTable(i) ==
  /\ i \in DOMAIN pushes
  /\ pushes[i].phase = "upsert"
  /\ SendsNothing(pushes[i])
  /\ Proceeds(i, pushes[i])
  /\ UNCHANGED <<data, stored, shipments, nextId, lastOp, others, remote, pull>>

\* the effect on [isSupabaseConnected], once connected: it calls loadAllData
ConnectedEffect ==
  /\ isSupabaseConnected
  /\ pull.phase = "idle"
  /\ Busy < MaxInFlight
  /\ pull' = [NoPull EXCEPT !.phase = "select", !.k = 1,
                            !.before = WithShipments(data, shipments)]
  /\ UNCHANGED <<data, stored, shipments, nextId, lastOp, others, remote, pushes,
                 isSupabaseConnected, isLoading>>

\* the records the effect builds from the rows loadAllData returned
ProjectFromRemote(p) ==
  [id |-> p.id, clientId |-> OrElse(Get(p, "client_id"), NoId),
   progress |-> OrElse(Get(p, "progress"), 0)]

ClientFromRemote(c) == [id |-> c.id, name |-> Get(c, "name")]

SupplierFromRemote(s) == [id |-> s.id, name |-> Get(s, "name")]

PartFromRemote(part) == [id |-> part.id, progress |-> OrElse(Get(part, "progress"), 0)]

\* partsData.filter(part => part.po_id === po.id)
RelatedParts(partsData, po) == SelectSeq(partsData, LAMBDA part : Get(part, "po_id") = po.id)

PurchaseOrderFromRemote(po, partsData) ==
  [id |-> po.id, projectId |-> Get(po, "project_id"),
   supplierId |-> Get(po, "supplier_id"),
   progress |-> OrElse(Get(po, "progress"), 0),
   parts |-> [i \in DOMAIN RelatedParts(partsData, po) |->
                PartFromRemote(RelatedParts(partsData, po)[i])]]

ExternalLinkFromRemote(el) ==
  [id |-> el.id, projectId |-> Get(el, "project_id"),
   supplierId |-> Get(el, "supplier_id"), poId |-> Get(el, "po_id"),
   title |-> Get(el, "title")]

ShipmentFromRemote(s) ==
  [id |-> s.id, projectId |-> Get(s, "project_id"),
   supplierId |-> Get(s, "supplier_id"), poId |-> Get(s, "po_id"),
   partId |-> Get(s, "part_id")]

\* the value the effect passes to setData
Transformed(got) ==
  [projects |-> [i \in DOMAIN got.projects |-> ProjectFromRemote(got.projects[i])],
   clients |-> [i \in DOMAIN got.clients |-> ClientFromRemote(got.clients[i])],
   suppliers |-> [i \in DOMAIN got.suppliers |-> SupplierFromRemote(got.suppliers[i])],
   purchaseOrders |->
     [i \in DOMAIN got.purchase_orders |->
        PurchaseOrderFromRemote(got.purchase_orders[i], got.parts)],
   externalLinks |->
     [i \in DOMAIN got.external_links |-> ExternalLinkFromRemote(got.external_links[i])],
   shipments |-> [i \in DOMAIN got.shipments |-> ShipmentFromRemote(got.shipments[i])]]

\* a loadAllData that lets no error pass
Tolerated_never(table, outcome) == FALSE

\* if (!shipmentsError) { shipments = shipmentsData || [] }: the error the
\* shipments request answers with is not thrown
Tolerated(table, outcome) == table = "shipments" /\ outcome = "error"

\* loadAllData: one select('*').  An error on a table other than shipments,
\* or a request that throws, ends the call with success false; after the
\* shipments request the call returns success true and the effect sets data
\* and shipments.
\* loadFromSupabase, up to its await: setIsLoading(true), call loadAllData.
\* It is called once, after the load of the effect has ended.
loadFromSupabase ==
  /\ pull.phase = "done"
  /\ pull.by = "effect"
  /\ Busy < MaxInFlight
  /\ isLoading' = TRUE
  /\ pull' = [NoPull EXCEPT !.phase = "select", !.k = 1, !.by = "loadFromSupabase",
                            !.before = WithShipments(data, shipments)]
  /\ lastOp' = Called("loadFromSupabase", NoId, TRUE)
  /\ UNCHANGED <<data, stored, shipments, nextId, others, remote, pushes,
                 isSupabaseConnected>>

\* what the caller of loadAllData does besides its setData: the effect
\* nothing; loadFromSupabase setIsSupabaseConnected(true) on success, and
\* setIsLoading(false) in its finally
PullReturns(success) ==
  IF pull.by = "loadFromSupabase"
  THEN /\ isLoading' = FALSE
       /\ isSupabaseConnected' = (success \/ isSupabaseConnected)
  ELSE UNCHANGED <<isSupabaseConnected, isLoading>>

LoadTable(outcome) ==
  /\ pull.phase = "select"
  /\ MayAnswer(outcome)
  /\ LET table == UpsertOrder[pull.k]
         failed == IF outcome = "ok" THEN pull.failed
                   ELSE Append(pull.failed, [table |-> table, outcome |-> outcome])
         got == IF outcome = "ok" THEN [pull.got EXCEPT ![table] = remote[table]]
                ELSE pull.got
     IN IF outcome # "ok" /\ ~Tolerated(table, outcome)
        THEN /\ pull' = [pull EXCEPT !.phase = "done", !.failed = failed,
                                     !.got = [t \in TableNames |-> <<>>],
                                     !.result = [success |-> FALSE],
                                     !.settled = "resolved"]
             /\ PullReturns(FALSE)
             /\ UNCHANGED <<data, stored, shipments>>
        ELSE IF pull.k < Len(UpsertOrder)
        THEN /\ pull' = [pull EXCEPT !.k = pull.k + 1, !.failed = failed, !.got = got]
             /\ UNCHANGED <<data, stored, shipments, isSupabaseConnected, isLoading>>
        ELSE /\ pull' = [pull EXCEPT !.phase = "done", !.failed = failed, !.got = got,
                                     !.result = [success |-> TRUE],
                                     !.settled = "resolved"]
             /\ PullReturns(TRUE)
             /\ data' = Transformed(got)
             /\ Persist
             \* setShipments(result.shipments || []) is the effect's alone
             /\ shipments' = IF pull.by = "effect" THEN got.shipments ELSE shipments
  /\ UNCHANGED <<nextId, lastOp, others, remote, pushes>>

\* the steps of the calls under way
RemoteSteps ==
  \/ \E i \in 1..MaxPushes, outcome \in Outcomes : ClearTable(i, outcome)
  \/ \E i \in 1..MaxPushes, outcome \in UpsertOutcomes : SyncTable(i, outcome)
  \/ \E i \in 1..MaxPushes : SkipTable(i)
  \/ ConnectedEffect
  \/ \E outcome \in Outcomes : LoadTable(outcome)

\* the store when it is synchronised, a client is renamed and a shipment
\* is added
NextSync ==
  \/ OneAtATime /\ syncWithSupabase
  \/ RemoteSteps
  \/ \E id \in IdsOf(data.clients) : updateClient(id, [name |-> 2])
  \/ \E shipment \in ShipmentPayloads :
       (isSupabaseConnected => OneAtATime) /\ addShipment(shipment)

SpecSync == Init /\ [][NextSync]_vars

\* the store when syncWithSupabase is called again while a push is under
\* way, a client is renamed in between and every request succeeds
NextRace ==
  \/ syncWithSupabase
  \/ \E i \in 1..MaxPushes : ClearTable(i, "ok")
  \/ \E i \in 1..MaxPushes : SyncTable(i, "ok")
  \/ \E i \in 1..MaxPushes : SkipTable(i)
  \/ \E id \in IdsOf(data.clients) : updateClient(id, [name |-> 2])

SpecRace == Init /\ [][NextRace]_vars

\* a blob that was written before the store kept shipments: no shipments key
OldBlob == [c \in DOMAIN Blob \ {"shipments"} |-> Blob[c]]

\* the store mounted on that blob
InitOld ==
  /\ data = Initializer(Json(OldBlob))
  /\ stored = Json(OldBlob)
  /\ shipments = <<>>
  /\ nextId = 0
  /\ lastOp = Called("init", NoId, FALSE)
  /\ basic = Sample
  /\ rendered = Sample
  /\ now = 0
  /\ calls = 0
  /\ remote = RemoteSeed
  /\ pushes = <<>>
  /\ pull = NoPull
  /\ isSupabaseConnected = FALSE
  /\ isLoading = FALSE
  /\ first = Mounted
  /\ form = MountedForm

\* the operations that read the shipments of the data, every request
\* succeeding
NextOld ==
  \/ \E id \in Targets(data.projects) : deleteProject(id)
  \/ \E id \in Targets(data.suppliers) : deleteSupplier(id)
  \/ \E id \in Targets(data.purchaseOrders) : deletePurchaseOrder(id)
  \/ OneAtATime /\ syncWithSupabase
  \/ \E i \in 1..MaxPushes : ClearTable(i, "ok")
  \/ \E i \in 1..MaxPushes : SyncTable(i, "ok")
  \/ \E i \in 1..MaxPushes : SkipTable(i)
  \/ ConnectedEffect
  \/ LoadTable("ok")

SpecOld == InitOld /\ [][NextOld]_vars

\* the store when it is pushed and loaded, by the effect and by hand, every
\* request succeeding, and the parts of a purchase order are edited
NextRound ==
  \/ OneAtATime /\ syncWithSupabase
  \/ \E i \in 1..MaxPushes : ClearTable(i, "ok")
  \/ \E i \in 1..MaxPushes : SyncTable(i, "ok")
  \/ \E i \in 1..MaxPushes : SkipTable(i)
  \/ ConnectedEffect
  \/ loadFromSupabase
  \/ LoadTable("ok")
  \/ \E id \in IdsOf(data.purchaseOrders) : \E po \in PurchaseOrderEdits(id) :
       /\ OneAtATime
       /\ po.projectId = Find(data.purchaseOrders, id).projectId
       /\ "progress" \in DOMAIN po
       /\ updatePurchaseOrder(id, po)
       /\ UNCHANGED form

SpecRound == Init /\ [][NextRound]_vars

\* ============================================ the sample-data provider
\* The provider that starts from the sample data and keeps nothing: five
\* useState values, handlers that are plain closures over the values of the
\* last render, and ids made from the clock.

BasicSupplierFields == {"id", "name", "comments"}
BasicPurchaseOrderFields == {"id", "projectId", "supplierId"}

\* the empty comments { positive: [], negative: [] } addSupplier defaults to
NoComments == <<>>

\* Omit<Project, "id"> as the form of the sample-data provider fills it
BasicProjectPayloads ==
  { [clientId |-> c, progress |-> p] :
      c \in IdsOf(rendered.clients) \cup {NoId}, p \in ProjectProgressValues }

\* Partial<Project>
BasicProjectPatches ==
  { [progress |-> p] : p \in ProjectProgressValues }
  \cup { [clientId |-> c] : c \in IdsOf(rendered.clients) }

\* Omit<Supplier, "id">, with or without comments
BasicSupplierPayloads ==
  { [name |-> 2], [name |-> 2, comments |-> 1] }

\* Omit<PurchaseOrder, "id">
BasicPurchaseOrderPayloads ==
  { [projectId |-> p, supplierId |-> s] :
      p \in IdsOf(rendered.projects), s \in IdsOf(rendered.suppliers) }

\* Partial<PurchaseOrder>
BasicPurchaseOrderPatches ==
  { [projectId |-> p] : p \in IdsOf(rendered.projects) }

\* Omit<ExternalLink, "id">
BasicExternalLinkPayloads ==
  { Compact([projectId |-> p, supplierId |-> Undef, poId |-> o, title |-> 1]) :
      p \in IdsOf(rendered.projects),
      o \in IdsOf(rendered.purchaseOrders) \cup {Undef} }

\* Partial<ExternalLink>
BasicExternalLinkPatches == { [title |-> 2] }

\* the ids the consumers of the sample-data provider pass: an id of the
\* rendered collection, or one that no record of it has
BasicTargets(s) ==
  IdsOf(s) \cup {CHOOSE i \in 1..(SampleIds + 1) : i \notin IdsOf(s)}

\* one more handler call on the sample-data provider
Call(op, id, found) ==
  /\ calls < MaxCalls
  /\ calls' = calls + 1
  /\ lastOp' = Called(op, id, found)
  /\ UNCHANGED <<rendered, now, storeVars>>

addProjectBasic(project) ==
  /\ basic' = [basic EXCEPT !.projects =
        Append(rendered.projects, Replace(DateNowId("p"), project, ProjectFields))]
  /\ Call("addProject", DateNowId("p"), TRUE)

updateProjectBasic(id, project) ==
  /\ basic' = [basic EXCEPT !.projects = MergeById(rendered.projects, id, project)]
  /\ Call("updateProject", id, Has(rendered.projects, id))

deleteProjectBasic(id) ==
  /\ basic' = [basic EXCEPT !.projects = SelectSeq(rendered.projects, LAMBDA p : p.id # id)]
  /\ Call("deleteProject", id, Has(rendered.projects, id))

addClientBasic(client) ==
  /\ basic' = [basic EXCEPT !.clients =
        Append(rendered.clients, Replace(DateNowId("c"), client, ClientFields))]
  /\ Call("addClient", DateNowId("c"), TRUE)

updateClientBasic(id, client) ==
  /\ basic' = [basic EXCEPT !.clients = MergeById(rendered.clients, id, client)]
  /\ Call("updateClient", id, Has(rendered.clients, id))

deleteClientBasic(id) ==
  /\ basic' = [basic EXCEPT !.clients = SelectSeq(rendered.clients, LAMBDA c : c.id # id)]
  /\ Call("deleteClient", id, Has(rendered.clients, id))

addSupplierBasic(supplier) ==
  LET newSupplier == Replace(DateNowId("s"), supplier, BasicSupplierFields)
  IN /\ basic' = [basic EXCEPT !.suppliers =
           Append(rendered.suppliers,
                  \* comments: supplier.comments || { positive: [], negative: [] }
                  IF newSupplier.comments = Undef
                  THEN [newSupplier EXCEPT !.comments = NoComments]
                  ELSE newSupplier)]
     /\ Call("addSupplier", DateNowId("s"), TRUE)

updateSupplierBasic(id, supplier) ==
  /\ basic' = [basic EXCEPT !.suppliers = MergeById(rendered.suppliers, id, supplier)]
  /\ Call("updateSupplier", id, Has(rendered.suppliers, id))

deleteSupplierBasic(id) ==
  /\ basic' = [basic EXCEPT !.suppliers = SelectSeq(rendered.suppliers, LAMBDA s : s.id # id)]
  /\ Call("deleteSupplier", id, Has(rendered.suppliers, id))

addPurchaseOrderBasic(po) ==
  /\ basic' = [basic EXCEPT !.purchaseOrders =
        Append(rendered.purchaseOrders,
               Replace(DateNowId("po"), po, BasicPurchaseOrderFields))]
  /\ Call("addPurchaseOrder", DateNowId("po"), TRUE)

updatePurchaseOrderBasic(id, po) ==
  /\ basic' = [basic EXCEPT !.purchaseOrders =
        MergeById(rendered.purchaseOrders, id, po)]
  /\ Call("updatePurchaseOrder", id, Has(rendered.purchaseOrders, id))

deletePurchaseOrderBasic(id) ==
  /\ basic' = [basic EXCEPT !.purchaseOrders =
        SelectSeq(rendered.purchaseOrders, LAMBDA p : p.id # id)]
  /\ Call("deletePurchaseOrder", id, Has(rendered.purchaseOrders, id))

addExternalLinkBasic(link) ==
  /\ basic' = [basic EXCEPT !.externalLinks =
        Append(rendered.externalLinks,
               Replace(DateNowId("l"), link, ExternalLinkFields))]
  /\ Call("addExternalLink", DateNowId("l"), TRUE)

updateExternalLinkBasic(id, link) ==
  /\ basic' = [basic EXCEPT !.externalLinks =
        MergeById(rendered.externalLinks, id, link)]
  /\ Call("updateExternalLink", id, Has(rendered.externalLinks, id))

deleteExternalLinkBasic(id) ==
  /\ basic' = [basic EXCEPT !.externalLinks =
        SelectSeq(rendered.externalLinks, LAMBDA l : l.id # id)]
  /\ Call("deleteExternalLink", id, Has(rendered.externalLinks, id))

\* React renders the provider again: the handlers of the new render close
\* over the values set so far
Render ==
  /\ rendered # basic
  /\ rendered' = basic
  /\ UNCHANGED <<basic, now, calls, lastOp, storeVars>>

\* a millisecond passes
Tick ==
  /\ now < MaxClock
  /\ now' = now + 1
  /\ UNCHANGED <<basic, rendered, calls, lastOp, storeVars>>

NextBasic ==
  \/ \E project \in BasicProjectPayloads : addProjectBasic(project)
  \/ \E id \in BasicTargets(rendered.projects), project \in BasicProjectPatches :
       updateProjectBasic(id, project)
  \/ \E id \in BasicTargets(rendered.projects) : deleteProjectBasic(id)
  \/ \E client \in NamePayloads : addClientBasic(client)
  \/ \E id \in BasicTargets(rendered.clients), client \in NamePayloads :
       updateClientBasic(id, client)
  \/ \E id \in BasicTargets(rendered.clients) : deleteClientBasic(id)
  \/ \E supplier \in BasicSupplierPayloads : addSupplierBasic(supplier)
  \/ \E id \in BasicTargets(rendered.suppliers), supplier \in NamePayloads :
       updateSupplierBasic(id, supplier)
  \/ \E id \in BasicTargets(rendered.suppliers) : deleteSupplierBasic(id)
  \/ \E po \in BasicPurchaseOrderPayloads : addPurchaseOrderBasic(po)
  \/ \E id \in BasicTargets(rendered.purchaseOrders),
         po \in BasicPurchaseOrderPatches : updatePurchaseOrderBasic(id, po)
  \/ \E id \in BasicTargets(rendered.purchaseOrders) : deletePurchaseOrderBasic(id)
  \/ \E link \in BasicExternalLinkPayloads : addExternalLinkBasic(link)
  \/ \E id \in BasicTargets(rendered.externalLinks),
         link \in BasicExternalLinkPatches : updateExternalLinkBasic(id, link)
  \/ \E id \in BasicTargets(rendered.externalLinks) : deleteExternalLinkBasic(id)
  \/ Render
  \/ Tick

SpecBasic == Init /\ [][NextBasic]_vars

\* =========================================== the remote-first provider
\* The provider whose handlers write to the remote store first: addProject
\* awaits the insert, sets its own state only when the insert succeeded, and
\* throws otherwise.

\* Omit<Project, "id">
FirstProjectPayloads ==
  { [clientId |-> c, progress |-> g] : c \in {NoId, 3}, g \in {0, 70} }

\* the id uuidv4() returns for the next call of this provider
FirstNewId == StaleId + 2 + Len(first.adds)

\* addProject up to its await: setIsLoading(true), newProject, the insert
\* is sent
addProjectFirst(project) ==
  /\ Len(first.adds) < MaxAdds
  /\ first' = [first EXCEPT
                 !.isLoading = TRUE,
                 !.adds = Append(@, [newProject |-> Replace(FirstNewId, project, ProjectFields),
                                     settled |-> "pending"])]
  /\ lastOp' = Called("addProject", FirstNewId, TRUE)
  /\ UNCHANGED <<data, stored, shipments, nextId, basicVars, remoteVars, form>>

\* the effect on [data, isLoading] of this provider, run by the render in
\* which isLoading is false: localStorage.setItem('asepsData',
\* JSON.stringify(data))
Saved(f) == [f EXCEPT !.stored = IF f.isLoading THEN @ ELSE Json(f.data)]

\* the insert is answered and addProject goes on: on success it appends
\* newProject to its state and resolves; on an error, or when the request
\* throws, it throws the error; in both cases it clears isLoading
InsertAnswers(i, outcome) ==
  /\ i \in DOMAIN first.adds
  /\ first.adds[i].settled = "pending"
  /\ IF outcome = "ok"
     THEN /\ remote' = [remote EXCEPT
                          !.projects = Append(@, ProjectToSync(first.adds[i].newProject))]
          /\ first' = Saved([first EXCEPT
                               !.data.projects = Append(@, first.adds[i].newProject),
                               !.isLoading = FALSE,
                               !.adds[i].settled = "resolved"])
     ELSE /\ remote' = remote
          /\ first' = Saved([first EXCEPT !.isLoading = FALSE,
                                          !.adds[i].settled = "rejected"])
  /\ UNCHANGED <<data, stored, shipments, nextId, lastOp, basicVars, pushes, pull,
                 isSupabaseConnected, isLoading, form>>

NextFirst ==
  \/ \E project \in FirstProjectPayloads : addProjectFirst(project)
  \/ \E i \in 1..MaxAdds, outcome \in Outcomes : InsertAnswers(i, outcome)

SpecFirst == Init /\ [][NextFirst]_vars

\* ------------------------------------------------- addPurchaseOrder
\* the addPurchaseOrder calls made on the remote-first provider
MaxOrders == 1

\* Omit<PurchaseOrder, "id"> as the form hands it over: one part with a
\* 'part-' id, for a project that may not exist
FirstPurchaseOrderPayloads ==
  { [projectId |-> p, supplierId |-> NoId, progress |-> g,
     parts |-> << [id |-> FormPartId(0), progress |-> 0] >>] :
      p \in {NoId} \cup IdsOf(first.data.projects), g \in {0, 25} }

\* the ids uuidv4() returns for the order of the next call and for its part
FirstOrderId == StaleId + 2 + MaxAdds + 2 * Len(first.orders) + 1
FirstPartId == FirstOrderId + 1

\* addPurchaseOrder up to its first await: setIsLoading(true),
\* newPurchaseOrder, the insert into purchase_orders is sent
addPurchaseOrderFirst(purchaseOrder) ==
  /\ Len(first.orders) < MaxOrders
  /\ first' = [first EXCEPT
                 !.isLoading = TRUE,
                 !.orders = Append(@,
                    [newPurchaseOrder |->
                       Replace(FirstOrderId, purchaseOrder, PurchaseOrderFields),
                     partId |-> FirstPartId,
                     awaits |-> "purchase_orders", settled |-> "pending"])]
  /\ lastOp' = Called("addPurchaseOrder", FirstOrderId, TRUE)
  /\ UNCHANGED <<data, stored, shipments, nextId, basicVars, remoteVars, form>>

\* the rows of partsWithPOId: a part with a 'part-' id gets a uuid
PartsWithPOId(order) ==
  [i \in DOMAIN order.newPurchaseOrder.parts |->
     [id |-> order.partId, po_id |-> order.newPurchaseOrder.id]]

\* the insert into purchase_orders is answered: on success the insert of
\* the parts is sent; otherwise the error is thrown on, the finally clears
\* isLoading and nothing else is done
OrderInsertAnswers(i, outcome) ==
  /\ i \in DOMAIN first.orders
  /\ first.orders[i].settled = "pending"
  /\ first.orders[i].awaits = "purchase_orders"
  /\ IF outcome = "ok"
     THEN /\ remote' = [remote EXCEPT !.purchase_orders =
                          Append(@, PurchaseOrderToSync(first.orders[i].newPurchaseOrder))]
          /\ first' = [first EXCEPT !.orders[i].awaits = "parts"]
     ELSE /\ remote' = remote
          /\ first' = Saved([first EXCEPT !.isLoading = FALSE,
                                          !.orders[i].settled = "rejected"])
  /\ UNCHANGED <<data, stored, shipments, nextId, lastOp, basicVars, pushes, pull,
                 isSupabaseConnected, isLoading, form>>

\* the insert into parts is answered: on success the order, with the parts
\* under their new ids, is appended to the local purchase orders; otherwise
\* the error is thrown on and the local data stay as they are
PartsInsertAnswers(i, outcome) ==
  /\ i \in DOMAIN first.orders
  /\ first.orders[i].settled = "pending"
  /\ first.orders[i].awaits = "parts"
  /\ IF outcome = "ok"
     THEN /\ remote' = [remote EXCEPT !.parts = @ \o PartsWithPOId(first.orders[i])]
          /\ first' = Saved([first EXCEPT
                               !.data.purchaseOrders = Append(@,
                                  [first.orders[i].newPurchaseOrder EXCEPT !.parts =
                                     [j \in DOMAIN PartsWithPOId(first.orders[i]) |->
                                        [id |-> PartsWithPOId(first.orders[i])[j].id]]]),
                               !.isLoading = FALSE,
                               !.orders[i].settled = "resolved"])
     ELSE /\ remote' = remote
          /\ first' = Saved([first EXCEPT !.isLoading = FALSE,
                                          !.orders[i].settled = "rejected"])
  /\ UNCHANGED <<data, stored, shipments, nextId, lastOp, basicVars, pushes, pull,
                 isSupabaseConnected, isLoading, form>>

NextOrders ==
  \/ NextFirst
  \/ \E po \in FirstPurchaseOrderPayloads : addPurchaseOrderFirst(po)
  \/ \E i \in 1..MaxOrders, outcome \in Outcomes : OrderInsertAnswers(i, outcome)
  \/ \E i \in 1..MaxOrders, outcome \in Outcomes : PartsInsertAnswers(i, outcome)

SpecOrders == Init /\ [][NextOrders]_vars

\* ------------------------------------------------------------- startup
\* a blob an earlier session of this provider saved: one client with one
\* project
FirstBlob ==
  [projects |-> << [id |-> 1, clientId |-> 3, progress |-> 70] >>,
   clients |-> << [id |-> 3, name |-> 1] >>,
   suppliers |-> <<>>, purchaseOrders |-> <<>>, externalLinks |-> <<>>]

\* what localStorage may hold when the provider mounts
FirstBlobs == {Absent, Corrupt, Json(FirstBlob)}

\* the records loadFromSupabase builds from the result of loadAllData: as
\* the effect of the other provider, but a part keeps no progress and
\* there are no shipments
FirstPartFromRemote(part) == [id |-> part.id]

FirstPurchaseOrderFromRemote(po, partsData) ==
  [id |-> po.id, projectId |-> Get(po, "project_id"),
   supplierId |-> Get(po, "supplier_id"),
   progress |-> OrElse(Get(po, "progress"), 0),
   parts |-> [i \in DOMAIN RelatedParts(partsData, po) |->
                FirstPartFromRemote(RelatedParts(partsData, po)[i])]]

FirstTransformed(got) ==
  [projects |-> [i \in DOMAIN got.projects |-> ProjectFromRemote(got.projects[i])],
   clients |-> [i \in DOMAIN got.clients |-> ClientFromRemote(got.clients[i])],
   suppliers |-> [i \in DOMAIN got.suppliers |-> SupplierFromRemote(got.suppliers[i])],
   purchaseOrders |->
     [i \in DOMAIN got.purchase_orders |->
        FirstPurchaseOrderFromRemote(got.purchase_orders[i], got.parts)],
   externalLinks |->
     [i \in DOMAIN got.external_links |-> ExternalLinkFromRemote(got.external_links[i])]]

\* loadFromSupabase when loadAllData returned success true: setData with
\* the transformed rows, return { success: true }; loadInitialData then has
\* nothing to do
Loaded(f, got) ==
  [f EXCEPT !.data = FirstTransformed(got), !.load.path = "remote"]

\* a startup that clears isLoading at the end of the try blocks and not in
\* a finally: the error JSON.parse throws skips the clearing
Fallback_noFinally(f) ==
  CASE f.stored.kind = "json" -> [f EXCEPT !.data = Parse(f.stored), !.load.path = "local"]
    [] f.stored.kind = "absent" -> [f EXCEPT !.data = createDummyData, !.load.path = "dummy"]
    [] f.stored.kind = "corrupt" -> [f EXCEPT !.load.path = "caught", !.isLoading = TRUE]

\* loadInitialData when loadFromSupabase returned success false: the saved
\* blob if localStorage has one, else createDummyData(); JSON.parse throwing
\* is caught and leaves data as it is
Fallback(f) ==
  CASE f.stored.kind = "json" -> [f EXCEPT !.data = Parse(f.stored), !.load.path = "local"]
    [] f.stored.kind = "absent" -> [f EXCEPT !.data = createDummyData, !.load.path = "dummy"]
    [] f.stored.kind = "corrupt" -> [f EXCEPT !.load.path = "caught"]

\* loadAllData has returned: loadFromSupabase sets data on success and
\* clears isLoading in its finally, loadInitialData falls back when the
\* result is not a success and clears isLoading in its finally, and the
\* render that follows runs the effect that saves the data
StartupEnds(success, outcome, got) ==
  LET cleared == [first EXCEPT !.isLoading = FALSE, !.load.phase = "done",
                               !.load.outcome = outcome, !.load.got = got]
  IN first' = Saved(IF success THEN Loaded(cleared, got) ELSE Fallback(cleared))

\* loadAllData of the startup: one select('*') is answered
StartupSelect(outcome) ==
  /\ first.load.phase = "select"
  /\ LET table == UpsertOrder[first.load.k]
         got == IF outcome = "ok" THEN [first.load.got EXCEPT ![table] = remote[table]]
                ELSE first.load.got
     IN IF outcome # "ok" /\ ~Tolerated(table, outcome)
        THEN StartupEnds(FALSE, outcome, [t \in TableNames |-> <<>>])
        ELSE IF first.load.k < Len(UpsertOrder)
        THEN first' = [first EXCEPT !.load.k = @ + 1, !.load.got = got]
        ELSE StartupEnds(TRUE, outcome, got)
  /\ UNCHANGED <<data, stored, shipments, nextId, lastOp, basicVars, remoteVars, form>>

\* every request of the startup is answered in the end
StartupSteps == \E outcome \in Outcomes : StartupSelect(outcome)

InitStartup ==
  /\ StoreInit
  /\ first \in {MountedOn(blob) : blob \in FirstBlobs}

NextStartup ==
  \/ NextFirst
  \/ StartupSteps

SpecStartup == InitStartup /\ [][NextStartup]_vars /\ WF_vars(StartupSteps)

\* ================================================= the purchase-order form
\* PurchaseOrderForm keeps formData in a useState; its handlers run while the
\* dialog is open, and the render after a handler that wrote a new parts
\* array runs the effect on [formData.parts] before the next event.

\* the inputs of the form: the selects offer the records that exist
FieldValues(field) ==
  CASE field = "projectId" -> IdsOf(data.projects)
    [] field = "supplierId" -> IdsOf(data.suppliers)
    [] field = "progress" ->
         SliderValues \cup {calculateProgressFromParts(form.formData.parts)}
    [] OTHER -> {EmptyText, SomeText}

FormFields == {"poNumber", "projectId", "supplierId", "deadline", "progress"}

PartFieldValues(field) ==
  IF field = "progress" THEN PartProgressValues ELSE {EmptyText, SomeText}

\* the parent gives the form an order (or none) and opens the dialog
OpenForm(purchaseOrder) ==
  /\ ~form.open
  /\ form.opens < MaxOpens
  /\ form' = [open |-> TRUE, purchaseOrder |-> purchaseOrder,
              opens |-> form.opens + 1, made |-> 0,
              formData |-> PartsEffect(FormDataOf(purchaseOrder, 0))]
  /\ UNCHANGED <<data, stored, shipments, nextId, lastOp, basicVars, first, remoteVars>>

handleChange(field, v) ==
  /\ form.open
  /\ form' = [form EXCEPT !.formData[field] = v]
  /\ UNCHANGED <<data, stored, shipments, nextId, lastOp, basicVars, first, remoteVars>>

handlePartChange(index, field, v) ==
  /\ form.open
  /\ index \in DOMAIN form.formData.parts
  /\ form' = [form EXCEPT !.formData =
                PartsEffect([@ EXCEPT !.parts[index][field] = v])]
  /\ UNCHANGED <<data, stored, shipments, nextId, lastOp, basicVars, first, remoteVars>>

addPart ==
  /\ form.open
  /\ form.made < MaxParts
  /\ form' = [form EXCEPT
                !.made = @ + 1,
                !.formData = PartsEffect([@ EXCEPT !.parts =
                               Append(@, BlankPart(form.made + 1))])]
  /\ UNCHANGED <<data, stored, shipments, nextId, lastOp, basicVars, first, remoteVars>>

\* the last part cannot be removed: toast.error and return
removePart(index) ==
  /\ form.open
  /\ index \in DOMAIN form.formData.parts
  /\ form' = IF Len(form.formData.parts) <= 1 THEN form
             ELSE [form EXCEPT !.formData = PartsEffect([@ EXCEPT !.parts =
                     [i \in 1..(Len(@) - 1) |-> IF i < index THEN @[i] ELSE @[i + 1]]])]
  /\ UNCHANGED <<data, stored, shipments, nextId, lastOp, basicVars, first, remoteVars>>

\* !poNumber || !projectId || !supplierId || !deadline
MissingField(formData) ==
  \/ formData.poNumber = EmptyText
  \/ formData.projectId = NoId
  \/ formData.supplierId = NoId
  \/ formData.deadline = EmptyText

\* formData.parts.some(part => !part.name)
UnnamedPart(formData) ==
  \E i \in DOMAIN formData.parts : formData.parts[i].name = EmptyText

\* formData as the store model keeps it
Submitted(formData) ==
  [projectId |-> formData.projectId, supplierId |-> formData.supplierId,
   progress |-> formData.progress,
   parts |-> [i \in DOMAIN formData.parts |->
                [id |-> formData.parts[i].id, progress |-> formData.parts[i].progress]]]

\* onClose(): the dialog closes, and the effect on [purchaseOrder, open]
\* writes the form of the order it was given again
Closed(f) ==
  [f EXCEPT !.open = FALSE, !.made = 0,
            !.formData = PartsEffect(FormDataOf(f.purchaseOrder, 0))]

\* handleSubmit without its two checks
handleSubmit_unchecked ==
  /\ form.open
  /\ IF form.purchaseOrder # NoPurchaseOrder
     THEN updatePurchaseOrder(form.purchaseOrder.id, Submitted(form.formData))
     ELSE addPurchaseOrder(Submitted(form.formData))
  /\ form' = Closed(form)

handleSubmit ==
  /\ form.open
  /\ IF MissingField(form.formData) \/ UnnamedPart(form.formData)
     THEN /\ lastOp' = Called("handleSubmit", NoId, FALSE)
          /\ UNCHANGED <<data, stored, shipments, nextId, form, basicVars, first,
                         remoteVars>>
     ELSE /\ IF form.purchaseOrder # NoPurchaseOrder
             THEN updatePurchaseOrder(form.purchaseOrder.id, Submitted(form.formData))
             ELSE addPurchaseOrder(Submitted(form.formData))
          /\ form' = Closed(form)

NextForm ==
  \/ \E po \in {NoPurchaseOrder} \cup {data.purchaseOrders[i] : i \in DOMAIN data.purchaseOrders} :
       OpenForm(po)
  \/ \E field \in FormFields : \E v \in FieldValues(field) : handleChange(field, v)
  \/ \E index \in 1..(MaxParts + 1), field \in {"name", "progress"} :
       \E v \in PartFieldValues(field) : handlePartChange(index, field, v)
  \/ addPart
  \/ \E index \in 1..(MaxParts + 1) : removePart(index)
  \/ handleSubmit

SpecForm == Init /\ [][NextForm]_vars

\* ================================================================ claims
\* the read model: the context value handed to the consumers
value ==
  [projects |-> data.projects, clients |-> data.clients,
   suppliers |-> data.suppliers, purchaseOrders |-> data.purchaseOrders,
   externalLinks |-> data.externalLinks, shipments |-> shipments]

Range(s) == {s[i] : i \in DOMAIN s}

UpdateOps == {"updateProject", "updateClient", "updateSupplier",
              "updatePurchaseOrder", "updateExternalLink", "updateShipment"}
DeleteOps == {"deleteProject", "deleteClient", "deleteSupplier",
              "deletePurchaseOrder", "deleteExternalLink", "deleteShipment"}
PurchaseOrderOps == {"addPurchaseOrder", "updatePurchaseOrder", "deletePurchaseOrder"}

\* C1: after deleteProject(P.id) of an existing Project P the read model holds
\* no PurchaseOrder, no Shipment and no ExternalLink with projectId = P.id.
C1_DeleteProjectCascades ==
  (lastOp.op = "deleteProject" /\ lastOp.found) =>
     /\ \A po \in Range(value.purchaseOrders) : po.projectId # lastOp.id
     /\ \A s \in Range(value.shipments) : s.projectId # lastOp.id
     /\ \A el \in Range(value.externalLinks) : el.projectId # lastOp.id

\* the mean of the progress of a Project's PurchaseOrders (unset counts as 0),
\* rounded half up: the k with k <= total / n + 1/2 < k + 1
RoundedMean(pos) ==
  CHOOSE k \in 0..100 :
    /\ 2 * Len(pos) * k <= 2 * SumProgress(pos) + Len(pos)
    /\ 2 * SumProgress(pos) + Len(pos) < 2 * Len(pos) * (k + 1)

\* C2: a PurchaseOrder add, update or delete leaves every Project whose set
\* of PurchaseOrders it changed, and that still has some, with progress equal
\* to the rounded mean of their progress.
C2_ProgressIsRoundedMean ==
  [][ lastOp'.op \in PurchaseOrderOps =>
        \A i \in DOMAIN data'.projects :
          LET pid == data'.projects[i].id
              before == POsOf(data.purchaseOrders, pid)
              after == POsOf(data'.purchaseOrders, pid)
          IN (after # before /\ after # <<>>) =>
               data'.projects[i].progress = RoundedMean(after) ]_vars

\* the progress of every Project, by id
ProgressById(projects) ==
  [i \in DOMAIN projects |-> <<projects[i].id, projects[i].progress>>]

\* C3: a PurchaseOrder add, update or delete that leaves a Project without
\* PurchaseOrders leaves that Project's progress as it was, and when it is a
\* delete (of the Project's last PurchaseOrder) the progress of every other
\* Project is as it was, too.
C3_LastDeleteKeepsProgress ==
  [][ lastOp'.op \in PurchaseOrderOps =>
        \A i \in DOMAIN data.projects :
          ( /\ POsOf(data.purchaseOrders, data.projects[i].id) # <<>>
            /\ POsOf(data'.purchaseOrders, data.projects[i].id) = <<>> )
          => /\ ProgressById(data'.projects)[i] = ProgressById(data.projects)[i]
             /\ lastOp'.op = "deletePurchaseOrder" =>
                  ProgressById(data'.projects) = ProgressById(data.projects) ]_vars

\* C3's case: deletePurchaseOrder has just removed the only PurchaseOrder, and
\* a Project without any still carries the progress derived from it (25).
C3_Witness ==
  /\ lastOp.op = "deletePurchaseOrder"
  /\ lastOp.found
  /\ data.purchaseOrders = <<>>
  /\ \E p \in Range(data.projects) : p.progress = 25

\* C4: after deleteSupplier(s) no PurchaseOrder and no Shipment of the read
\* model has supplierId = s, and the ExternalLinks are all still there, those
\* of s with supplierId cleared and nothing else changed.
C4_DeleteSupplierCascades ==
  [][ (lastOp'.op = "deleteSupplier" /\ lastOp'.found) =>
        /\ \A po \in Range(data'.purchaseOrders) : po.supplierId # lastOp'.id
        /\ \A s \in Range(shipments') : s.supplierId # lastOp'.id
        /\ DOMAIN data'.externalLinks = DOMAIN data.externalLinks
        /\ \A i \in DOMAIN data.externalLinks :
             data'.externalLinks[i] =
               IF data.externalLinks[i].supplierId = lastOp'.id
               THEN [data.externalLinks[i] EXCEPT !.supplierId = Undef]
               ELSE data.externalLinks[i] ]_vars

\* C5: after deletePurchaseOrder(id) the PurchaseOrder (with its parts) is
\* gone, no Shipment of the read model has poId = id, the ExternalLinks are
\* all still there with poId = id cleared, and clients, suppliers and the
\* other PurchaseOrders are unchanged.
C5_DeletePurchaseOrderCascades ==
  [][ (lastOp'.op = "deletePurchaseOrder" /\ lastOp'.found) =>
        /\ data'.purchaseOrders =
             SelectSeq(data.purchaseOrders, LAMBDA po : po.id # lastOp'.id)
        /\ \A s \in Range(shipments') : s.poId # lastOp'.id
        /\ DOMAIN data'.externalLinks = DOMAIN data.externalLinks
        /\ \A i \in DOMAIN data.externalLinks :
             data'.externalLinks[i] =
               IF data.externalLinks[i].poId = lastOp'.id
               THEN [data.externalLinks[i] EXCEPT !.poId = Undef]
               ELSE data.externalLinks[i]
        /\ data'.clients = data.clients
        /\ data'.suppliers = data.suppliers ]_vars

\* C6: deleteClient(c) of an existing Client, on a provider that has rendered
\* its latest state, removes that Client and nothing else: the Projects are
\* the same records in the same order except that those with clientId = c
\* now have an empty clientId, and the other collections are as they were.
C6_DeleteClientClearsClientId ==
  [][ \A c \in IdsOf(rendered.clients) :
        (rendered = basic /\ deleteClientBasic(c)) =>
          /\ basic'.clients = SelectSeq(basic.clients, LAMBDA x : x.id # c)
          /\ DOMAIN basic'.projects = DOMAIN basic.projects
          /\ \A i \in DOMAIN basic.projects :
               basic'.projects[i] =
                 IF basic.projects[i].clientId = c
                 THEN [basic.projects[i] EXCEPT !.clientId = NoId]
                 ELSE basic.projects[i]
          /\ basic'.suppliers = basic.suppliers
          /\ basic'.purchaseOrders = basic.purchaseOrders
          /\ basic'.externalLinks = basic.externalLinks ]_vars

\* C7: every reference held by a record of the read model names a record of
\* the collection it refers to (every payload of Spec names existing records).
C7_ReferentialIntegrity ==
  /\ \A po \in Range(value.purchaseOrders) :
       /\ po.projectId \in IdsOf(value.projects)
       /\ po.supplierId \in IdsOf(value.suppliers)
  /\ \A el \in Range(value.externalLinks) :
       /\ el.projectId \in IdsOf(value.projects)
       /\ el.supplierId # Undef => el.supplierId \in IdsOf(value.suppliers)
       /\ el.poId # Undef => el.poId \in IdsOf(value.purchaseOrders)
  /\ \A s \in Range(value.shipments) :
       /\ s.projectId \in IdsOf(value.projects)
       /\ s.supplierId \in IdsOf(value.suppliers)
       /\ s.poId \in IdsOf(value.purchaseOrders)
  /\ \A p \in Range(value.projects) :
       p.clientId # NoId => p.clientId \in IdsOf(value.clients)

\* the record with this id after a partial patch of old by payload
IsPatchOf(new, old, id, payload) ==
  /\ new.id = id
  /\ \A f \in DOMAIN payload : new[f] = payload[f]
  /\ \A f \in (DOMAIN old \ DOMAIN payload) \ {"id"} : new[f] = old[f]

\* C8: update(id, payload) of a record that exists is a partial patch, for
\* each entity type: the id is kept, the payload's fields take the payload's
\* values, the other fields keep theirs.
C8_UpdateIsPartialPatch ==
  [][ /\ \A id \in IdsOf(data.projects), payload \in ProjectPayloads :
           updateProject(id, payload) =>
             IsPatchOf(Find(data'.projects, id), Find(data.projects, id), id, payload)
      /\ \A id \in IdsOf(data.clients), payload \in NamePayloads :
           updateClient(id, payload) =>
             IsPatchOf(Find(data'.clients, id), Find(data.clients, id), id, payload)
      /\ \A id \in IdsOf(data.suppliers), payload \in NamePayloads :
           updateSupplier(id, payload) =>
             IsPatchOf(Find(data'.suppliers, id), Find(data.suppliers, id), id, payload)
      /\ \A id \in IdsOf(data.purchaseOrders) :
           \A payload \in PurchaseOrderPayloads(id) :
             updatePurchaseOrder(id, payload) =>
               IsPatchOf(Find(data'.purchaseOrders, id),
                         Find(data.purchaseOrders, id), id, payload)
      /\ \A id \in IdsOf(data.externalLinks), payload \in ExternalLinkPayloads :
           updateExternalLink(id, payload) =>
             IsPatchOf(Find(data'.externalLinks, id),
                       Find(data.externalLinks, id), id, payload)
      /\ \A id \in IdsOf(shipments), payload \in ShipmentPatches :
           updateShipment(id, payload) =>
             IsPatchOf(Find(shipments', id), Find(shipments, id), id, payload)
    ]_vars

\* C9: an update that names an id absent from its collection reports NotFound
\* to its caller; a delete of an absent id is, for every entity type alike, a
\* call that returns normally.
C9_UpdateOfAbsentIdFails ==
  /\ (lastOp.op \in UpdateOps /\ ~lastOp.found) => lastOp.result = "NotFound"
  /\ (lastOp.op \in DeleteOps /\ ~lastOp.found) => lastOp.result = "void"

\* C10: an update or delete that names an id absent from its collection
\* changes none of the six collections, Project progress included.
C10_AbsentIdHasNoEffect ==
  [][ (lastOp'.op \in (UpdateOps \cup DeleteOps) /\ ~lastOp'.found) =>
        (data' = data /\ shipments' = shipments) ]_vars

\* C11: an add appends: after it the collection holds every record it held
\* before, in the same order, and then exactly one new record carrying the
\* payload's fields, also when the call follows another call that the
\* provider has not rendered yet.
C11_AddAppends ==
  [][ /\ \A project \in BasicProjectPayloads :
           addProjectBasic(project) =>
             basic'.projects =
               Append(basic.projects, Replace(DateNowId("p"), project, ProjectFields))
      /\ \A client \in NamePayloads :
           addClientBasic(client) =>
             basic'.clients =
               Append(basic.clients, Replace(DateNowId("c"), client, ClientFields))
      /\ \A po \in BasicPurchaseOrderPayloads :
           addPurchaseOrderBasic(po) =>
             basic'.purchaseOrders =
               Append(basic.purchaseOrders,
                      Replace(DateNowId("po"), po, BasicPurchaseOrderFields))
      /\ \A link \in BasicExternalLinkPayloads :
           addExternalLinkBasic(link) =>
             basic'.externalLinks =
               Append(basic.externalLinks,
                      Replace(DateNowId("l"), link, ExternalLinkFields))
    ]_vars

\* ------------------------------------------------------------------ C12
\* the place of each table in the order the specification gives
TableRank ==
  [clients |-> 1, projects |-> 2, suppliers |-> 3, purchase_orders |-> 4,
   parts |-> 5, external_links |-> 6, shipments |-> 7]

\* the upserts a syncAllData call has issued so far, in the order of issue
Upserts(p) == SelectSeq(p.log, LAMBDA e : e.op = "upsert")

\* C12: every syncAllData call issues its upserts in the order clients,
\* projects, suppliers, purchase_orders, parts, external_links, shipments;
\* when it issues the upsert of a table, the step of every earlier table has
\* completed successfully (its upsert was answered without error, or it was
\* the parts or shipments step and had no rows to send); and no row of the
\* remote purchase_orders table carries a parts field.
C12_UpsertsInOrder ==
  /\ \A i \in DOMAIN pushes :
       LET u == Upserts(pushes[i])
       IN /\ \A h, j \in DOMAIN u :
               h < j => TableRank[u[h].table] < TableRank[u[j].table]
          /\ \A j \in DOMAIN u :
               \A t \in {s \in TableNames : TableRank[s] < TableRank[u[j].table]} :
                 \/ \E h \in 1..(j - 1) : u[h].table = t /\ u[h].outcome = "ok"
                 \/ /\ t \in {"parts", "shipments"}
                    /\ RowsFor(pushes[i].args, t) = <<>>
  /\ \A r \in DOMAIN remote.purchase_orders :
       "parts" \notin DOMAIN remote.purchase_orders[r]

\* a call that has issued all seven upserts, the purchase orders it was
\* given carrying their parts
C12_Witness ==
  \E i \in DOMAIN pushes :
    /\ Len(Upserts(pushes[i])) = 7
    /\ pushes[i].result.success
    /\ \E r \in DOMAIN pushes[i].args.purchaseOrders :
         "parts" \in DOMAIN pushes[i].args.purchaseOrders[r]
    /\ remote.purchase_orders # <<>>

\* ------------------------------------------------------------------ C13
\* the name of each step in the message of a failed result
StepName ==
  [clients |-> "clients", projects |-> "projects", suppliers |-> "suppliers",
   purchase_orders |-> "purchase orders", parts |-> "parts",
   external_links |-> "external links", shipments |-> "shipments"]

\* the call has issued an upsert that failed
HasFailed(p) == \E j \in DOMAIN p.log : p.log[j].op = "upsert" /\ p.log[j].outcome # "ok"

\* C13: when the upsert of a step of syncAllData fails, the call issues no
\* further upsert (no upsert is ever issued by a call that has a failed
\* one), the failing step leaves every remote table as the earlier steps
\* wrote it, and the call returns at once with success false and the
\* message "Failed to sync <step>".
C13_FailureAborts ==
  [][ \A i \in DOMAIN pushes :
        /\ \A outcome \in UpsertOutcomes :
             SyncTable(i, outcome) => ~HasFailed(pushes[i])
        /\ SyncTable(i, "error") =>
             /\ remote' = remote
             /\ pushes'[i].phase = "done"
             /\ pushes'[i].result.success = FALSE
             /\ pushes'[i].result.message
                  = "Failed to sync " \o StepName[UpsertOrder[pushes[i].k]]
             /\ Len(pushes'[i].log) = Len(pushes[i].log) + 1
    ]_vars

\* a call whose projects upsert failed after its clients upsert had written
\* the local client: the client row is still there
C13_Witness ==
  \E i \in DOMAIN pushes :
    /\ pushes[i].phase = "done"
    /\ ~pushes[i].result.success
    /\ pushes[i].result.message = "Failed to sync projects"
    /\ Has(remote.clients, 3)
    /\ remote.projects = <<>>

\* ------------------------------------------------------------------ C14
\* the step completes a call of syncWithSupabase with success true, every
\* request of the call having succeeded
PushSucceeds(i) ==
  /\ pushes[i].by = "syncWithSupabase"
  /\ pushes[i].phase # "done"
  /\ pushes'[i].phase = "done"
  /\ pushes'[i].result.success
  /\ \A j \in DOMAIN pushes'[i].log : pushes'[i].log[j].outcome = "ok"

\* C14: when a push of syncWithSupabase completes successfully, the remote
\* parts table holds exactly one row for every part of every purchase order
\* of the pushed data, and the row's po_id is the id of that purchase order.
\* (No step of SpecSync edits the purchase orders while a push is under
\* way, so data.purchaseOrders is the snapshot the push was called on.)
C14_PartsArePushed ==
  [][ \A i \in DOMAIN pushes :
        PushSucceeds(i) =>
          \A n \in DOMAIN data.purchaseOrders :
            \A m \in DOMAIN data.purchaseOrders[n].parts :
              /\ Cardinality({r \in DOMAIN remote'.parts :
                     remote'.parts[r].id = data.purchaseOrders[n].parts[m].id}) = 1
              /\ \A r \in DOMAIN remote'.parts :
                   remote'.parts[r].id = data.purchaseOrders[n].parts[m].id
                     => remote'.parts[r].po_id = data.purchaseOrders[n].id
    ]_vars

\* ------------------------------------------------------------------ C15
\* C15: an upsert that succeeds leaves the table with exactly one row for
\* every id it sent, that row being the row sent (a client pushed again with
\* a changed name is stored once, with the new name); a row whose id was
\* already stored is replaced where it stood, rows with other ids are kept,
\* and only rows with new ids make the table longer; an upsert of rows that
\* are all stored already (the same snapshot pushed again) changes nothing.
C15_UpsertInPlace ==
  [][ \A i \in DOMAIN pushes :
        SyncTable(i, "ok") =>
          LET table == UpsertOrder[pushes[i].k]
              rows == RowsFor(pushes[i].args, table)
              old == remote[table]
              new == remote'[table]
          IN /\ \A r \in DOMAIN rows :
                  /\ Cardinality({n \in DOMAIN new : new[n].id = rows[r].id}) = 1
                  /\ Find(new, rows[r].id) = rows[r]
             /\ \A o \in DOMAIN old :
                  IF Has(rows, old[o].id) THEN new[o].id = old[o].id
                  ELSE new[o] = old[o]
             /\ Len(new) = Len(old) + Cardinality(IdsOf(rows) \ IdsOf(old))
             /\ (\A r \in DOMAIN rows : \E o \in DOMAIN old : old[o] = rows[r])
                  => new = old
    ]_vars

\* the local client was pushed with its first name, renamed, and pushed
\* again by a call whose delete of the clients table failed: the table holds
\* it once, with the second name
C15_Witness ==
  /\ Len(pushes) = 2
  /\ pushes[1].args.clients = << [id |-> 3, name |-> 1] >>
  /\ pushes[2].args.clients = << [id |-> 3, name |-> 2] >>
  /\ \E j \in DOMAIN pushes[2].log :
       /\ pushes[2].log[j].op = "delete"
       /\ pushes[2].log[j].table = "clients"
       /\ pushes[2].log[j].outcome = "error"
  /\ \E j \in DOMAIN pushes[2].log :
       /\ pushes[2].log[j].op = "upsert"
       /\ pushes[2].log[j].table = "clients"
       /\ pushes[2].log[j].outcome = "ok"
  /\ Cardinality({n \in DOMAIN remote.clients : remote.clients[n].id = 3}) = 1
  /\ Find(remote.clients, 3).name = 2

\* ------------------------------------------------------------------ C16
\* the five tables other than shipments whose rows loadAllData returns,
\* and parts
RequiredTables == TableNames \ {"shipments"}

\* C16: a select that answers with an error ends loadAllData with success
\* false when its table is one of clients, projects, suppliers,
\* purchase_orders, parts, external_links; when its table is shipments the
\* call returns success true with no shipments and with the rows it loaded
\* from the other tables; and a select that succeeds loads the rows the
\* table holds.
C16_OnlyShipmentsTolerated ==
  [][ /\ LoadTable("error") =>
           IF UpsertOrder[pull.k] = "shipments"
           THEN /\ pull'.phase = "done"
                /\ pull'.result.success = TRUE
                /\ pull'.got.shipments = <<>>
                /\ \A t \in RequiredTables : pull'.got[t] = pull.got[t]
           ELSE /\ pull'.phase = "done"
                /\ pull'.result.success = FALSE
      /\ LoadTable("ok") =>
           pull'.got[UpsertOrder[pull.k]] = remote[UpsertOrder[pull.k]]
    ]_vars

\* a pull that returned success true although its shipments request
\* failed, with the clients it loaded
C16_Witness ==
  /\ pull.phase = "done"
  /\ pull.result.success
  /\ pull.failed = << [table |-> "shipments", outcome |-> "error"] >>
  /\ pull.got.shipments = <<>>
  /\ pull.got.clients # <<>>
  /\ remote.shipments # <<>>

\* ------------------------------------------------------------------ C17
\* C17: no syncAllData call and no loadAllData call rejects, whatever
\* requests fail, those of clearTables included; a call that has ended has
\* resolved to a result; the result of syncAllData has success false exactly
\* when one of its upserts failed (a failure while clearing does not fail
\* the call), and the result of loadAllData has success false exactly when
\* a select failed that is not the tolerated error of the shipments table.
C17_NeverRejects ==
  /\ \A i \in DOMAIN pushes :
       /\ pushes[i].settled # "rejected"
       /\ pushes[i].phase = "done" =>
            /\ pushes[i].settled = "resolved"
            /\ pushes[i].result.success = ~HasFailed(pushes[i])
            /\ pushes[i].result.success = (pushes[i].result.message = SuccessMessage)
  /\ pull.settled # "rejected"
  /\ pull.phase = "done" =>
       /\ pull.settled = "resolved"
       /\ pull.result.success =
            (\A j \in DOMAIN pull.failed :
               pull.failed[j] = [table |-> "shipments", outcome |-> "error"])

\* a call with a delete that threw and an upsert that failed: it has
\* resolved, with success false
C17_Witness ==
  \E i \in DOMAIN pushes :
    /\ pushes[i].phase = "done"
    /\ pushes[i].settled = "resolved"
    /\ ~pushes[i].result.success
    /\ \E j \in DOMAIN pushes[i].log :
         pushes[i].log[j].op = "delete" /\ pushes[i].log[j].outcome = "throw"
    /\ HasFailed(pushes[i])

\* ------------------------------------------------------------------ C18
\* C18: a mutation is in the local data as soon as the handler has been
\* called, while its remote request is still under way, and it stays there
\* when the request fails: right after addProject is called the provider's
\* projects hold the new project, and they hold it after the insert has
\* been answered, whatever the answer.
C18_LocalFirst ==
  [][ /\ \A project \in FirstProjectPayloads :
           addProjectFirst(project) => Has(first'.data.projects, FirstNewId)
      /\ \A i \in DOMAIN first.adds, outcome \in Outcomes :
           InsertAnswers(i, outcome) =>
             Has(first'.data.projects, first.adds[i].newProject.id)
    ]_vars

\* ------------------------------------------------------------------ C19
\* the step ends a call of syncWithSupabase whose syncAllData returned
\* success false
PushFails(i) ==
  /\ pushes[i].by = "syncWithSupabase"
  /\ pushes[i].phase # "done"
  /\ pushes'[i].phase = "done"
  /\ ~pushes'[i].result.success

\* C19: when the syncAllData call of syncWithSupabase returns success
\* false, syncWithSupabase rejects, so that its caller sees the failure,
\* and it does not set isSupabaseConnected.
C19_FailureIsSurfaced ==
  [][ \A i \in DOMAIN pushes :
        PushFails(i) =>
          /\ pushes'[i].caller = "rejected"
          /\ isSupabaseConnected' = isSupabaseConnected
    ]_vars

\* ------------------------------------------------------------------ C20
\* C20: no step that a push causes (the requests of clearTables and of the
\* syncX functions, the effect that runs when the push has set
\* isSupabaseConnected, and the requests and the end of the pull this
\* effect starts) changes the local collections: data, with the parts of
\* every purchase order, and shipments stay what they were.
C20_PushKeepsLocalData ==
  [][ RemoteSteps => (data' = data /\ shipments' = shipments) ]_vars

\* ------------------------------------------------------------------ C25
\* what a consumer reads of a snapshot once it has been through JSON: the
\* collections with the fields that hold a value
Readable(snapshot) == Parse(Json(snapshot))

\* C25: in every state between two handler calls (each handler is one step
\* here, the effect that writes the blob included) the blob stored under
\* 'asepsData' parses to the six collections of the read model, shipments
\* included.
C25_BlobMirrorsReadModel ==
  /\ stored.kind = "json"
  /\ Parse(stored) = Readable(value)

\* ------------------------------------------------------------------ C26
\* the read model of a provider that mounts on what is stored: data from
\* the initializer, shipments from useState([])
Remounted ==
  LET loaded == Initializer(stored)
  IN  [projects |-> loaded.projects, clients |-> loaded.clients,
       suppliers |-> loaded.suppliers, purchaseOrders |-> loaded.purchaseOrders,
       externalLinks |-> loaded.externalLinks, shipments |-> <<>>]

\* C26: a snapshot that was saved and is loaded back by a provider that
\* mounts on the stored blob reads the same, field for field, in all six
\* collections.
C26_LocalRoundTrip ==
  Readable(Remounted) = Readable(value)

\* ------------------------------------------------------------------ C27
\* C27: when clearAllData has been called and its effects have run, the six
\* collections of the read model are empty and nothing is stored under
\* 'asepsData'.
C27_ClearLeavesNothing ==
  [][ clearAllData =>
        /\ \A c \in DOMAIN value' : value'[c] = <<>>
        /\ stored' = Absent
    ]_vars

\* ------------------------------------------------------------------ C21
\* no call of addProject waits for its insert
NoPendingAdd == \A i \in DOMAIN first.adds : first.adds[i].settled # "pending"

\* C21: whatever the requests of the startup pull answer (rows, an error,
\* a thrown error) and whatever localStorage holds (a blob, nothing, a text
\* that does not parse), the startup ends, and once it has ended isLoading
\* is false whenever no handler call is under way.
C21_StartupTerminates ==
  /\ <>(first.load.phase = "done")
  /\ [](first.load.phase = "done" /\ NoPendingAdd => ~first.isLoading)

\* the startup has ended on a request that threw, with a blob that does
\* not parse, and isLoading is false
C21_Witness ==
  /\ first.load.phase = "done"
  /\ first.load.outcome = "throw"
  /\ first.load.path = "caught"
  /\ NoPendingAdd
  /\ ~first.isLoading

\* ------------------------------------------------------------------ C22
\* the step in which the startup ends
StartupEnding == first.load.phase = "select" /\ first'.load.phase = "done"

\* loadAllData of the startup returned success false
PullFailed ==
  /\ first'.load.outcome # "ok"
  /\ ~Tolerated(UpsertOrder[first.load.k], first'.load.outcome)

\* C22: when the startup ends after a failed pull, the provider's data is
\* the stored blob if there is one and the sample dataset if there is none,
\* and in no case the empty data it mounted with; when it ends after a
\* successful pull, the data is the transformed remote rows.
C22_FallbackOrdering ==
  [][ StartupEnding =>
        IF PullFailed
        THEN /\ first.stored.kind = "json" => first'.data = Parse(first.stored)
             /\ first.stored.kind = "absent" => first'.data = createDummyData
             /\ first'.data # Mounted.data
        ELSE first'.data = FirstTransformed(first'.load.got)
    ]_vars

\* ------------------------------------------------------------------ C23
\* C23: when the pull of the startup has failed and what is stored does not
\* parse, the startup goes the way it goes with nothing stored: no error is
\* caught and the data becomes the sample dataset.
C23_CorruptIsAbsent ==
  [][ StartupEnding /\ PullFailed /\ first.stored = Corrupt =>
        /\ first'.load.path = "dummy"
        /\ first'.data = createDummyData
    ]_vars

\* ------------------------------------------------------------------ C24
\* C24: isLoading is true exactly while the startup has not ended: false in
\* every state after its end, true in every state before.
C24_LoadingOnlyDuringStartup ==
  first.isLoading <=> first.load.phase = "select"

\* ------------------------------------------------------------------ C28
\* C28: when a push was started while an older one was under way and both
\* have completed, every remote table holds exactly the rows the newer push
\* was called with.
C28_NewerPushWins ==
  \A i, j \in DOMAIN pushes :
    (i \in pushes[j].since /\ pushes[i].phase = "done" /\ pushes[j].phase = "done")
      => \A table \in TableNames :
           Range(remote[table]) = Range(RowsFor(pushes[j].args, table))

\* ------------------------------------------------------------------ C29
\* the step in which the pull ends and its callback has run
PullCompletes == pull.phase = "select" /\ pull'.phase = "done"

\* the records of the read model that a handler added or changed since the
\* pull was started
EditedSince(collection) ==
  {r \in Range(value[collection]) : r \notin Range(pull.before[collection])}

\* the snapshot of the read model as syncWithSupabase would send it
SnapshotToSync ==
  [ArgsToSync EXCEPT
     !.shipments = [i \in DOMAIN shipments |-> ShipmentToSync(shipments[i])]]

\* C29: every record a handler added or changed while the pull was under
\* way is in the read model after the callback of the pull has run, and
\* the arguments syncWithSupabase hands to syncAllData are the whole read
\* model of the moment of the call, the shipments added before it included.
C29_NoClobber ==
  [][ /\ PullCompletes =>
           \A collection \in DOMAIN value :
             EditedSince(collection) \subseteq Range(value'[collection])
      /\ syncWithSupabase => pushes'[Len(pushes')].args = SnapshotToSync
    ]_vars

\* ------------------------------------------------------------------ C30
\* the records of the given collections of a snapshot whose field names id
Referencing(snapshot, collections, field, id) ==
  {r \in UNION {Range(snapshot[c]) : c \in collections} : Get(r, field) = id}

\* C30: in the state a cascading delete of an existing record leaves, no
\* record that its cascade has to delete or clear names the deleted record:
\* no PurchaseOrder, Shipment or ExternalLink the deleted Project, no
\* PurchaseOrder, Shipment or ExternalLink the deleted Supplier, no Shipment
\* or ExternalLink the deleted PurchaseOrder, no Project the deleted Client.
C30_CascadeIsAtomic ==
  lastOp.found =>
    /\ lastOp.op = "deleteProject" =>
         Referencing(value, {"purchaseOrders", "shipments", "externalLinks"},
                     "projectId", lastOp.id) = {}
    /\ lastOp.op = "deleteSupplier" =>
         Referencing(value, {"purchaseOrders", "shipments", "externalLinks"},
                     "supplierId", lastOp.id) = {}
    /\ lastOp.op = "deletePurchaseOrder" =>
         Referencing(value, {"shipments", "externalLinks"}, "poId", lastOp.id) = {}
    /\ lastOp.op = "deleteClient" =>
         Referencing(value, {"projects"}, "clientId", lastOp.id) = {}

\* ------------------------------------------------------------------ C31
\* the ids of the records of a snapshot, collection by collection
AllIds(snapshot) ==
  [c \in DOMAIN snapshot |-> [i \in DOMAIN snapshot[c] |-> snapshot[c][i].id]]

\* no id occurs twice in a collection and none in two collections
UniqueIds(snapshot) ==
  LET ids == AllIds(snapshot)
  IN /\ \A c \in DOMAIN ids : \A i, j \in DOMAIN ids[c] :
            ids[c][i] = ids[c][j] => i = j
     /\ \A c, d \in DOMAIN ids : c # d => Range(ids[c]) \cap Range(ids[d]) = {}

\* C31: in every state of the sample-data provider no two records of a
\* collection have the same id and no id is in two collections, also when
\* adds follow each other within one millisecond.
C31_IdsAreUnique == UniqueIds(basic)

\* ------------------------------------------------------------------ C32
\* the ids of the parts of the PurchaseOrder with this id, if there is one
PartIdsOf(snapshot, poId) ==
  UNION { {po.parts[i].id : i \in DOMAIN po.parts} :
            po \in {q \in Range(snapshot.purchaseOrders) : q.id = poId} }

\* C32: in every state, the partId of every Shipment of the read model is
\* the id of a Part of the PurchaseOrder its poId names.
C32_ShipmentPartBelongs ==
  \A s \in Range(value.shipments) :
    Get(s, "partId") \in PartIdsOf(value, Get(s, "poId"))

\* ------------------------------------------------------------------ C33
\* the mean of the progress of the parts, rounded half up: the k with
\* k <= total / n + 1/2 < k + 1
RoundedPartMean(parts) ==
  CHOOSE k \in 0..100 :
    /\ 2 * Len(parts) * k <= 2 * SumPartProgress(parts) + Len(parts)
    /\ 2 * SumPartProgress(parts) + Len(parts) < 2 * Len(parts) * (k + 1)

\* the fields of formData that are neither the parts nor the progress
OtherFields(formData) ==
  <<formData.poNumber, formData.projectId, formData.supplierId, formData.deadline>>

\* C33: while the dialog is open, a step that changes the parts of the form
\* when its progress is 0 or unset leaves the progress at the rounded mean of
\* the progress of the new parts; a step that changes the parts when the
\* progress is not 0, and a step that changes another field and not the
\* parts, leave the progress as it was.
C33_ProgressFollowsParts ==
  [][ (form.open /\ form'.open) =>
        LET before == form.formData
            after == form'.formData
        IN /\ (after.parts # before.parts /\ before.progress \in {0, Undef}) =>
                after.progress = RoundedPartMean(after.parts)
           /\ (after.parts # before.parts /\ before.progress \notin {0, Undef}) =>
                after.progress = before.progress
           /\ (after.parts = before.parts /\ OtherFields(after) # OtherFields(before)) =>
                after.progress = before.progress ]_vars

\* C33's case: the progress was derived from two parts whose mean, 37.5, is
\* rounded up
C33_Witness ==
  /\ form.open
  /\ Len(form.formData.parts) = 2
  /\ {form.formData.parts[i].progress : i \in DOMAIN form.formData.parts} = {25, 50}
  /\ form.formData.progress = 38

\* ------------------------------------------------------------------ C34
\* the order in the form has an empty poNumber, projectId, supplierId or
\* deadline, or a part without a name
LacksRequired(formData) ==
  \/ EmptyText \in {formData.poNumber, formData.deadline}
  \/ NoId \in {formData.projectId, formData.supplierId}
  \/ \E part \in Range(formData.parts) : part.name = EmptyText

C35_MissingKeyIsTolerated ==
  /\ lastOp.result # "throws"
  /\ lastOp.op = "init" =>
       /\ value = [c \in DOMAIN Blob |-> IF c = "shipments" THEN <<>> ELSE Blob[c]]
       /\ "shipments" \notin DOMAIN data
  /\ lastOp.op \in DeleteOps =>
       ("shipments" \in DOMAIN data /\ data.shipments = <<>>)

\* C35's case: a push of the data without the key has succeeded, and a
\* record was deleted after it
C35_Witness ==
  /\ \E i \in DOMAIN pushes : pushes[i].phase = "done" /\ pushes[i].result.success
  /\ lastOp.op \in DeleteOps
  /\ lastOp.found

\* ------------------------------------------------------------------ C36
\* the last syncAllData call was made by syncWithSupabase on this read
\* model, all its requests succeeded, and no call is under way
PushedLast(snapshot) ==
  /\ pushes # <<>>
  /\ InFlight = {}
  /\ LET p == pushes[Len(pushes)]
     IN /\ p.by = "syncWithSupabase"
        /\ p.result.success
        /\ \A j \in DOMAIN p.log : p.log[j].outcome = "ok"
        /\ p.snapshot = snapshot

\* the two snapshots have the same ids in every collection, the same parts
\* in every PurchaseOrder and the same Shipments, field by field
SameRecords(after, snapshot) ==
  /\ \A c \in DOMAIN snapshot : IdsOf(after[c]) = IdsOf(snapshot[c])
  /\ \A po \in Range(snapshot.purchaseOrders) :
       \A q \in Range(after.purchaseOrders) : q.id = po.id => q.parts = po.parts
  /\ Range(after.shipments) = Range(snapshot.shipments)

\* C36: when a load (of the effect or of loadFromSupabase) succeeds that
\* was started on the read model S which the last push, a successful
\* syncWithSupabase, had sent, and nothing was edited meanwhile, the read
\* model after it has the ids of S in all six collections, the parts of S
\* in every PurchaseOrder and the Shipments of S.
C36_RemoteRoundTrip ==
  [][ ( /\ PullCompletes
        /\ pull'.result.success
        /\ pull'.failed = <<>>
        /\ value = pull.before
        /\ PushedLast(pull.before) )
      => SameRecords(value', pull.before) ]_vars

\* ------------------------------------------------------------------ C37
\* the call began with a delete of each of the seven tables, in the order of
\* clearTables, and every one of them succeeded
ClearedAll(p) ==
  /\ Len(p.log) >= Len(ClearOrder)
  /\ \A k \in DOMAIN ClearOrder :
       p.log[k] = [op |-> "delete", table |-> ClearOrder[k], outcome |-> "ok"]

\* C37: a syncAllData call that issues an upsert has deleted the rows of all
\* seven tables before, children before parents, and when a call returns
\* success every remote table holds exactly the rows the call was handed.
C37_ClearedBeforeUpserts ==
  [][ \A i \in DOMAIN pushes :
        /\ ( Len(pushes'[i].log) > Len(pushes[i].log)
             /\ pushes'[i].log[Len(pushes'[i].log)].op = "upsert" )
           => ClearedAll(pushes[i])
        /\ ( pushes[i].phase # "done" /\ pushes'[i].phase = "done"
             /\ pushes'[i].result.success )
           => \A table \in TableNames :
                Range(remote'[table]) = Range(RowsFor(pushes[i].args, table))
    ]_vars

\* ------------------------------------------------------------------ C38
\* a remote operation of the remote-first provider is under way: the load
\* of the startup, or an addProject whose insert has not been answered
OperationInFlight ==
  \/ first.load.phase = "select"
  \/ \E i \in DOMAIN first.adds : first.adds[i].settled = "pending"

\* C38: in every state of the remote-first provider in which a remote
\* operation is under way, isLoading is true.
C38_LoadingWhileInFlight == OperationInFlight => first.isLoading

\* ------------------------------------------------------------------ C39
\* the ids of the remote parts rows of this purchase order
RemotePartIds(poId) ==
  {row.id : row \in {r \in Range(remote.parts) : r.po_id = poId}}

\* C39: whenever no addPurchaseOrder call of the remote-first provider is
\* under way, the local purchase orders and the rows of the remote
\* purchase_orders table have the same ids, and every local purchase order
\* has the parts that the remote parts table holds for it.
C39_LocalMatchesRemote ==
  (\A i \in DOMAIN first.orders : first.orders[i].settled # "pending") =>
    /\ IdsOf(first.data.purchaseOrders) = IdsOf(remote.purchase_orders)
    /\ \A po \in Range(first.data.purchaseOrders) :
         IdsOf(po.parts) = RemotePartIds(po.id)

\* ------------------------------------------------------------------ C40
\* C40: no step taken while the startup of the remote-first provider has
\* not ended (its load is under way, and the fallback has not read the
\* blob) changes what is stored under 'asepsData'.
C40_BlobKeptUntilRead ==
  [][ (first.load.phase = "select" /\ first'.load.phase = "select") =>
        first'.stored = first.stored ]_vars

====
